---- MODULE Spec2Model ----
(***************************************************************************)
(* A model of ladybug-vtk: attaching data to a PolyData, resolving its     *)
(* legend range and choosing its active field (polydata.py), exporting a   *)
(* VisualizationSet / Model to a vtkjs archive (visualization_set.py,      *)
(* model.py, display_polydata.py, model_dataset.py), the color_by and      *)
(* display mode of a display group (display_polydata.py,                   *)
(* model_dataset.py), the opacity setter and add_data_fields of a display  *)
(* group, building a DisplayPolyData from an AnalysisGeometry or a         *)
(* ContextGeometry (display_polydata.py), the older conversion of an       *)
(* AnalysisGeometry to a ModelDataSet (vis_set.py), and the vis-to-vtk     *)
(* command (cli/__init__.py).                                              *)
(*                                                                         *)
(* Python values are modelled as follows.                                  *)
(*   - a list element is a record [t, v]: t is its Python type ("float",   *)
(*     "int", "str", or "none" for any unsupported type) and v its value   *)
(*     (an integer; integral floats only; for a string an opaque id);      *)
(*   - a legend bound is a record [none, v]: None, or the number v;        *)
(*   - the data_range argument is [kind, lo, hi]: "absent" (None),         *)
(*     "empty" (an empty list or tuple) or "pair" (lo, hi);                *)
(*   - a returned range is [kind, lo, hi]: "pair", "empty" (the empty      *)
(*     tuple) or "pynone" (the function fell off its end and returned      *)
(*     None).                                                              *)
(***************************************************************************)
EXTENDS Integers, Sequences, FiniteSets, TLC

VARIABLES
    \* ---- one PolyData (polydata.py)
    nCells,        \* GetNumberOfCells()
    nPoints,       \* GetNumberOfPoints()
    cellData,      \* GetCellData(): array name -> array
    pointData,     \* GetPointData(): array name -> array
    fields,        \* self._fields: name -> DataFieldInfo
    activeCell,    \* name of the active scalars of GetCellData(), "" when none
    activePoint,   \* name of the active scalars of GetPointData(), "" when none
    nCalls,        \* number of method calls followed on the PolyData
    lastCall,      \* the last method call on the PolyData, its inputs and outcome
    \* ---- one evaluation of PolyData._get_data_range
    rgArray,       \* the vtk array handed in
    rgRange,       \* the data_range handed in
    rgOut,         \* its outcome
    \* ---- one to_vtkjs call (visualization_set.py, model.py)
    exFlavor,      \* "VisualizationSet" (of DisplayPolyData) or "Model" (of ModelDataSet)
    exDatasets,    \* self.datasets
    exPc,          \* position in to_vtkjs
    exI,           \* index of the dataset the loop is at
    exScene,       \* the local list scene
    exTemp,        \* the scratch directory made by tempfile.mkdtemp
    exWritten,     \* dataset index -> sub-folder its to_folder wrote
    exZip,         \* the archive made in the temporary location
    exArchive,     \* the archive at the target path
    exRaisedAt,    \* the step that raised, "" when none did
    exName,        \* the name argument of the call, "" for None
    exRun,         \* 1 in the first to_vtkjs call on the set, 2 in the second
    exFirst,       \* what the first call left, once a second one is made
    exFolder,      \* the folder argument of the call
    exReturn,      \* the path the call returned, NoPath until it returns
    \* ---- one DisplayPolyData.from_analysis_geometry or from_context_geometry
    \* ---- call (display_polydata.py)
    fgKind,        \* "analysis" (AnalysisGeometry) or "context" (ContextGeometry)
    fgGeoms,       \* geometry.geometry
    fgMatching,    \* geometry.matching_method as declared
    fgDataSets,    \* geometry.data_sets
    fgActive,      \* geometry.active_data
    fgPc,          \* position in from_analysis_geometry
    fgPolys,       \* the local list poly_datas
    fgMatch,       \* the local matching_method
    fgDs,          \* index of the data set the loop is at
    fgColorBy,     \* the local color_by, "" while unbound
    fgError,       \* the exception raised, "" when none
    fgGroup,       \* the DisplayPolyData returned
    \* ---- one display group (display_polydata.py, model_dataset.py)
    grFlavor,      \* "DisplayPolyData" or "ModelDataSet"
    grPolys,       \* the PolyData it owns (self.polydata, self.data)
    grColorBy,     \* ModelDataSet._color_by, "" for None
    grMode,        \* self._display_mode
    grColor,       \* self._color
    grEntry,       \* the manifest entry last made by to_vtk_dataset / as_data_set
    grCalls,       \* number of operations followed on the group
    grLast,        \* the last operation on the group, its input and outcome
    \* ---- one run of the vis-to-vtk command (cli/__init__.py)
    clFileOk,      \* the vis-file argument names an existing file
    clFormat,      \* the --output-format option
    clOutput,      \* the --output-file option, "-" for stdout
    clPc,          \* position in the run
    clCalled,      \* vis_set_to_vtk has been called
    clReturned,    \* vis_set_to_vtk has returned normally
    clRaised,      \* the class of the exception vis_set_to_vtk raised, "" when none
    clWrote,       \* the format of the file to_vtkjs / to_html wrote, "" when none
    clLogged,      \* the handler has logged the exception
    clExit,        \* the exit code of the process, NoExit while it runs
    \* ---- one vis_set.from_analysis_geometry call (vis_set.py)
    vsGeoms,       \* analysis_geo.geometry
    vsMatching,    \* analysis_geo.matching_method, which the function does not read
    vsDataSets,    \* analysis_geo.data_sets
    vsActive,      \* analysis_geo.active_data
    vsPc,          \* position in from_analysis_geometry
    vsMappings,    \* the list _data_mapping returned
    vsPolys,       \* the local list poly_datas
    vsDs,          \* index of the data set the loop is at
    vsColorBy,     \* the local color_by, "" while unbound
    vsError,       \* the exception raised, "" when none
    vsGroup        \* the ModelDataSet returned

pdVars == <<nCells, nPoints, cellData, pointData, fields, activeCell, activePoint,
            nCalls, lastCall>>
rgVars == <<rgArray, rgRange, rgOut>>
exVars == <<exFlavor, exDatasets, exPc, exI, exScene, exTemp, exWritten, exZip,
            exArchive, exRaisedAt, exName, exRun, exFirst, exFolder, exReturn>>
fgVars == <<fgKind, fgGeoms, fgMatching, fgDataSets, fgActive, fgPc, fgPolys, fgMatch, fgDs,
            fgColorBy, fgError, fgGroup>>
grVars == <<grFlavor, grPolys, grColorBy, grMode, grColor, grEntry, grCalls, grLast>>
clVars == <<clFileOk, clFormat, clOutput, clPc, clCalled, clReturned, clRaised, clWrote,
            clLogged, clExit>>
vsVars == <<vsGeoms, vsMatching, vsDataSets, vsActive, vsPc, vsMappings, vsPolys, vsDs,
            vsColorBy, vsError, vsGroup>>

-----------------------------------------------------------------------------
(* Bounds of the model. *)

\* longest data list handed to add_data / _get_data_range
MaxLen == 2
\* largest cell count / point count of the buffer
MaxCount == 2
\* numeric element values range over 0..MaxVal, legend bounds over -1..MaxVal+1
MaxVal == 1

Names == {"a", "b"}
Vals == 0..MaxVal
BoundVals == -1..(MaxVal + 1)

None == [none |-> TRUE, v |-> 0]
Num(x) == [none |-> FALSE, v |-> x]
Bounds == {None} \cup {Num(x) : x \in BoundVals}

Elems == {[t |-> ty, v |-> x] : ty \in {"float", "int"}, x \in Vals}
            \cup {[t |-> "str", v |-> 0], [t |-> "none", v |-> 0]}

SeqsUpTo(S, n) == UNION {[1..k -> S] : k \in 0..n}
DataLists == SeqsUpTo(Elems, MaxLen)

Absent == [kind |-> "absent", lo |-> None, hi |-> None]
EmptyRange == [kind |-> "empty", lo |-> None, hi |-> None]
Pair(lo, hi) == [kind |-> "pair", lo |-> lo, hi |-> hi]
PyNone == [kind |-> "pynone", lo |-> None, hi |-> None]
DataRanges == {Absent, EmptyRange} \cup {Pair(lo, hi) : lo \in Bounds, hi \in Bounds}

SeqRange(s) == {s[i] : i \in 1..Len(s)}
MinOf(s) == CHOOSE x \in SeqRange(s) : \A y \in SeqRange(s) : x <= y
MaxOf(s) == CHOOSE x \in SeqRange(s) : \A y \in SeqRange(s) : x >= y

-----------------------------------------------------------------------------
(* PolyData._resolve_array_type and the vtk arrays. *)

\* "float" -> vtkFloatArray, "int" -> vtkIntArray, "str" -> vtkStringArray,
\* anything else raises ValueError
ResolveArrayType(d) ==
    IF d.t = "float" THEN [status |-> "ok", kind |-> "float"]
    ELSE IF d.t = "int" THEN [status |-> "ok", kind |-> "int"]
    ELSE IF d.t = "str" THEN [status |-> "ok", kind |-> "str"]
    ELSE [status |-> "ValueError", kind |-> ""]

\* values.InsertNextValue(d) of the vtk Python wrappers: a float array takes a
\* float or an int; an int array takes an int, and a float either raises
\* TypeError or is truncated, depending on the build (truncates); a string
\* array takes only a str. Everything else raises TypeError.
InsertAccepts(kind, d, truncates) ==
    \/ kind = "float" /\ d.t \in {"float", "int"}
    \/ kind = "int" /\ d.t = "int"
    \/ kind = "int" /\ d.t = "float" /\ truncates
    \/ kind = "str" /\ d.t = "str"

\* the array built by the loop of InsertNextValue calls
BuildArray(kind, data, truncates) ==
    IF \A i \in 1..Len(data) : InsertAccepts(kind, data[i], truncates)
    THEN [status |-> "ok", kind |-> kind, vals |-> [i \in 1..Len(data) |-> data[i].v]]
    ELSE [status |-> "TypeError", kind |-> kind, vals |-> <<>>]

-----------------------------------------------------------------------------
(* PolyData._get_data_range. *)

\* Python truthiness of a bound: None and 0 are falsy
Truthy(b) == ~b.none /\ b.v # 0

\* array.GetRange(): (minimum, maximum) of the array's values
AutoRange_Ends(vals) == <<vals[1], vals[Len(vals)]>>

AutoRange(vals) == <<MinOf(vals), MaxOf(vals)>>

\* the branches reached when min and max are both numbers (lines 201-217)
BothGiven_Strict(lo, hi) ==
    IF lo.v > hi.v
    THEN [status |-> "ValueError", value |-> PyNone]
    ELSE [status |-> "ok", value |-> Pair(lo, hi)]

BothGiven(lo, hi) ==
    IF lo.v = 0 /\ hi.v = 0
    THEN [status |-> "ValueError", value |-> PyNone]
    ELSE IF lo.v >= hi.v
    THEN [status |-> "ValueError", value |-> PyNone]
    ELSE IF lo.v = hi.v
    THEN [status |-> "ValueError", value |-> PyNone]
    ELSE [status |-> "ok", value |-> Pair(lo, hi)]

\* the numeric branch (lines 164-217); a fall through every elif returns None
NumericRange(dr, vals) ==
    LET auto == AutoRange(vals) IN
    IF dr.kind \in {"absent", "empty"}
    THEN [status |-> "ok", value |-> Pair(Num(auto[1]), Num(auto[2]))]
    ELSE IF dr.lo.none /\ dr.hi.none
    THEN [status |-> "ok", value |-> Pair(Num(auto[1]), Num(auto[2]))]
    ELSE IF dr.lo.none /\ Truthy(dr.hi)
    THEN [status |-> "ok", value |-> Pair(Num(auto[1]), dr.hi)]
    ELSE IF Truthy(dr.lo) /\ dr.hi.none
    THEN [status |-> "ok", value |-> Pair(dr.lo, Num(auto[2]))]
    ELSE IF ~dr.lo.none /\ ~dr.hi.none
    THEN BothGiven(dr.lo, dr.hi)
    ELSE [status |-> "ok", value |-> PyNone]

\* the string branch (line 220): tuple(data_range)
StringRange(dr) ==
    IF dr.kind = "absent" THEN [status |-> "TypeError", value |-> PyNone]
    ELSE IF dr.kind = "empty" THEN [status |-> "ok", value |-> EmptyRange]
    ELSE [status |-> "ok", value |-> Pair(dr.lo, dr.hi)]

GetDataRange(dr, array) ==
    IF array.kind # "str" THEN NumericRange(dr, array.vals) ELSE StringRange(dr)

-----------------------------------------------------------------------------
(* PolyData.add_data. *)

EmptyMap == [x \in {} |-> 0]
Put(f, k, val) == [x \in DOMAIN f \cup {k} |-> IF x = k THEN val ELSE f[x]]

\* a PolyData as constructed: no arrays, no fields
FreshBuffer == [cellData |-> EmptyMap, pointData |-> EmptyMap, fields |-> EmptyMap]

\* GetCellData().AddArray(values) / GetPointData().AddArray(values): an array
\* of the same name is replaced
Attach(buf, name, arr, cell) ==
    LET a == [kind |-> arr.kind, vals |-> arr.vals] IN
    IF cell THEN [buf EXCEPT !.cellData = Put(@, name, a)]
    ELSE [buf EXCEPT !.pointData = Put(@, name, a)]

\* DataFieldInfo(name, data_range, colors, cell), and hide_legend for strings
FieldInfo(range, cell, kind) ==
    [range |-> range, per_face |-> cell, hide_legend |-> (kind = "str")]

\* add_data(data, name, cell=cell, data_range=dr) on buf: the buffer after
\* the call and how the call ended
AddDataOp_Overwrite(buf, name, data, cell, dr, truncates) ==
    IF Len(data) = 0
    THEN [buf |-> buf, result |-> "IndexError"]
    ELSE LET rt == ResolveArrayType(data[1]) IN
    IF rt.status # "ok"
    THEN [buf |-> buf, result |-> rt.status]
    ELSE LET arr == BuildArray(rt.kind, data, truncates) IN
    IF arr.status # "ok"
    THEN [buf |-> buf, result |-> arr.status]
    ELSE LET attached == Attach(buf, name, arr, cell)
             r == GetDataRange(dr, arr) IN
    IF r.status # "ok"
    THEN [buf |-> attached, result |-> r.status]
    ELSE [buf |-> [attached EXCEPT
                     !.fields = Put(@, name, FieldInfo(r.value, cell, arr.kind))],
          result |-> "ok"]

AddDataOp(buf, name, data, cell, dr, truncates) ==
    IF name \in DOMAIN buf.fields
    THEN [buf |-> buf, result |-> "AssertionError"]
    ELSE IF Len(data) = 0
    THEN [buf |-> buf, result |-> "IndexError"]
    ELSE LET rt == ResolveArrayType(data[1]) IN
    IF rt.status # "ok"
    THEN [buf |-> buf, result |-> rt.status]
    ELSE LET arr == BuildArray(rt.kind, data, truncates) IN
    IF arr.status # "ok"
    THEN [buf |-> buf, result |-> arr.status]
    ELSE LET attached == Attach(buf, name, arr, cell)
             r == GetDataRange(dr, arr) IN
    IF r.status # "ok"
    THEN [buf |-> attached, result |-> r.status]
    ELSE [buf |-> [attached EXCEPT
                     !.fields = Put(@, name, FieldInfo(r.value, cell, arr.kind))],
          result |-> "ok"]

NoCall == [op |-> "none", name |-> "", data |-> <<>>, cell |-> TRUE,
           dr |-> Absent, result |-> "ok"]

Buffer == [cellData |-> cellData, pointData |-> pointData, fields |-> fields]

AddData(name, data, cell, dr, truncates) ==
    LET r == AddDataOp(Buffer, name, data, cell, dr, truncates) IN
    /\ cellData' = r.buf.cellData
    /\ pointData' = r.buf.pointData
    /\ fields' = r.buf.fields
    /\ lastCall' = [op |-> "add_data", name |-> name, data |-> data, cell |-> cell,
                    dr |-> dr, result |-> r.result]
    /\ nCalls' = nCalls + 1
    /\ UNCHANGED <<nCells, nPoints, activeCell, activePoint>>

\* an earlier add_data("a", ...) of one float per cell (or per point), with
\* no explicit range, on the fresh buffer
EarlierField(count, cell) ==
    AddDataOp(FreshBuffer, "a", [i \in 1..count |-> [t |-> "float", v |-> 1]],
              cell, Absent, FALSE).buf

\* the states a PolyData of nc cells and np points is in before the call
\* that is followed: as constructed, or carrying the earlier field "a"
BuffersBefore(nc, np) ==
    {FreshBuffer, EarlierField(nc, TRUE), EarlierField(np, FALSE)}

-----------------------------------------------------------------------------
(* PolyData.color_by. *)

\* GetCellData().SetActiveScalars(name) / GetPointData().SetActiveScalars(name)
\* on the attribute set arrays whose active scalars are active: a name that
\* is no array of the set resets the active scalars to none; a string array
\* is refused (only vtkDataArray subclasses can be active) and the active
\* scalars stay; otherwise the named array becomes the active scalars
SetActiveScalars(arrays, active, name) ==
    IF name \notin DOMAIN arrays THEN ""
    ELSE IF arrays[name].kind = "str" THEN active
    ELSE name

\* color_by(name, cell) on buf with the active scalars ac (cell data) and ap
\* (point data): the active scalars after the call and how the call ended
ColorByOp(buf, ac, ap, name, cell) ==
    IF name \notin DOMAIN buf.fields
    THEN [activeCell |-> ac, activePoint |-> ap, result |-> "AssertionError"]
    ELSE IF cell
    THEN [activeCell |-> SetActiveScalars(buf.cellData, ac, name),
          activePoint |-> ap, result |-> "ok"]
    ELSE [activeCell |-> ac,
          activePoint |-> SetActiveScalars(buf.pointData, ap, name), result |-> "ok"]

ColorBy(name, cell) ==
    LET r == ColorByOp(Buffer, activeCell, activePoint, name, cell) IN
    /\ activeCell' = r.activeCell
    /\ activePoint' = r.activePoint
    /\ lastCall' = [op |-> "color_by", name |-> name, data |-> <<>>, cell |-> cell,
                    dr |-> Absent, result |-> r.result]
    /\ nCalls' = nCalls + 1
    /\ UNCHANGED <<nCells, nPoints, cellData, pointData, fields>>

-----------------------------------------------------------------------------
(* VisualizationSet.to_vtkjs and Model.to_vtkjs.                           *)
(* A dataset is [name, identifier, npoly]: npoly is the length of its      *)
(* polydata list (DisplayPolyData.polydata, ModelDataSet.data).            *)

\* most datasets of a set
MaxDatasets == 2
\* most PolyData of a dataset
MaxPoly == 2

Labels == {"x", "y"}
Datasets == [name : Labels, identifier : Labels, npoly : 0..MaxPoly]

\* to_folder's sub_folder: DisplayPolyData uses its identifier, ModelDataSet
\* its name
SubFolder(flavor, ds) ==
    IF flavor = "VisualizationSet" THEN ds.identifier ELSE ds.name

\* what to_folder returns: None ("") for an empty dataset, else the path of
\* the sub-folder written
ToFolderPath_Always(flavor, ds) == SubFolder(flavor, ds)

ToFolderPath(flavor, ds) ==
    IF ds.npoly = 0 THEN "" ELSE SubFolder(flavor, ds)

\* httpDataSetReader.url of to_vtk_dataset (the identifier) and of
\* as_data_set (the name)
EntryUrl_Name(flavor, ds) == ds.name

EntryUrl(flavor, ds) ==
    IF flavor = "VisualizationSet" THEN ds.identifier ELSE ds.name

\* the manifest entry of dataset number i; src records the dataset it is of
SceneEntry_Named(flavor, ds, i) ==
    [name |-> exName, url |-> EntryUrl(flavor, ds), src |-> i]

SceneEntry(flavor, ds, i) ==
    [name |-> ds.name, url |-> EntryUrl(flavor, ds), src |-> i]

\* the name argument of to_vtkjs: None (the file is then named
\* visualization_set or model) or a name
ExportNames == {"", "scene"}
\* the folder argument of to_vtkjs: the default '.' or an absolute path
ExportFolders == {".", "/out"}

\* a file path is [folder, stem, ext]: folder/stem.ext
NoPath == [folder |-> "", stem |-> "", ext |-> ""]

\* pathlib.Path(folder).absolute() / os.path.abspath(folder): a relative
\* path is put under the working directory, an absolute one kept
Absolute(folder) == IF folder = "." THEN "/cwd" ELSE folder

\* file_name = name or 'visualization_set' (name or 'model' in model.py)
FileName_Given(flavor, name) == name

FileName(flavor, name) ==
    IF name # "" THEN name
    ELSE IF flavor = "VisualizationSet" THEN "visualization_set" ELSE "model"

\* target_vtkjs_file: target_folder joined with file_name + '.vtkjs'
TargetFile(flavor, folder, name) ==
    [folder |-> Absolute(folder), stem |-> FileName(flavor, name), ext |-> "vtkjs"]

\* the archive convert_directory_to_zip_file makes, not yet moved
TempFile == [folder |-> "/tmp", stem |-> "scratch", ext |-> "vtkjs"]

NoTemp == [exists |-> FALSE, folders |-> {}, index |-> <<>>, hasIndex |-> FALSE]
NoArchive == [exists |-> FALSE, folders |-> {}, scene |-> <<>>, path |-> NoPath]
NoFirst == [made |-> FALSE, archive |-> NoArchive, name |-> "", datasets |-> <<>>]

Raise(step) ==
    /\ exPc' = "raised"
    /\ exRaisedAt' = step

\* temp_folder = tempfile.mkdtemp(); scene = []
Mkdtemp ==
    /\ exPc = "start"
    /\ exTemp' = [NoTemp EXCEPT !.exists = TRUE]
    /\ exScene' = <<>>
    /\ exI' = 1
    /\ exPc' = "loop"
    /\ UNCHANGED <<exFlavor, exDatasets, exWritten, exZip, exArchive, exRaisedAt>>
    /\ UNCHANGED <<exName, exRun, exFirst, exFolder, exReturn>>
    /\ UNCHANGED <<pdVars, rgVars, fgVars, grVars, clVars, vsVars>>

\* one turn of the loop over self.datasets: to_folder, then the entry
WriteDataset ==
    /\ exPc = "loop"
    /\ exI <= Len(exDatasets)
    /\ LET ds == exDatasets[exI]
           path == ToFolderPath(exFlavor, ds)
       IN IF path = ""
          THEN \* empty dataset: continue
               /\ exI' = exI + 1
               /\ UNCHANGED <<exPc, exScene, exTemp, exWritten, exRaisedAt>>
          ELSE \/ \* the sub-folder is written and the entry appended
                  /\ exTemp' = [exTemp EXCEPT !.folders = @ \cup {path}]
                  /\ exWritten' = Put(exWritten, exI, path)
                  /\ exScene' = Append(exScene, SceneEntry(exFlavor, ds, exI))
                  /\ exI' = exI + 1
                  /\ UNCHANGED <<exPc, exRaisedAt>>
               \/ \* making or writing the sub-folder raises
                  /\ Raise("to_folder")
                  /\ UNCHANGED <<exI, exScene, exTemp, exWritten>>
    /\ UNCHANGED <<exFlavor, exDatasets, exZip, exArchive>>
    /\ UNCHANGED <<exName, exRun, exFirst, exFolder, exReturn>>
    /\ UNCHANGED <<pdVars, rgVars, fgVars, grVars, clVars, vsVars>>

\* index_json.scene = scene; index_json.to_json(temp_folder)
WriteIndex ==
    /\ exPc = "loop"
    /\ exI > Len(exDatasets)
    /\ \/ /\ exTemp' = [exTemp EXCEPT !.index = exScene, !.hasIndex = TRUE]
          /\ exPc' = "zip"
          /\ UNCHANGED exRaisedAt
       \/ /\ Raise("to_json")
          /\ UNCHANGED exTemp
    /\ UNCHANGED <<exFlavor, exDatasets, exI, exScene, exWritten, exZip, exArchive>>
    /\ UNCHANGED <<exName, exRun, exFirst, exFolder, exReturn>>
    /\ UNCHANGED <<pdVars, rgVars, fgVars, grVars, clVars, vsVars>>

\* convert_directory_to_zip_file(temp_folder, extension='vtkjs', move=False)
ZipFolder ==
    /\ exPc = "zip"
    /\ \/ /\ exZip' = [exists |-> TRUE, folders |-> exTemp.folders,
                       scene |-> exTemp.index, path |-> TempFile]
          /\ exPc' = "move"
          /\ UNCHANGED exRaisedAt
       \/ /\ Raise("zip")
          /\ UNCHANGED exZip
    /\ UNCHANGED <<exFlavor, exDatasets, exI, exScene, exTemp, exWritten, exArchive>>
    /\ UNCHANGED <<exName, exRun, exFirst, exFolder, exReturn>>
    /\ UNCHANGED <<pdVars, rgVars, fgVars, grVars, clVars, vsVars>>

\* shutil.move(temp_vtkjs_file, target_vtkjs_file)
MoveArchive ==
    /\ exPc = "move"
    /\ \/ /\ exArchive' = [exZip EXCEPT
                            !.path = TargetFile(exFlavor, exFolder, exName)]
          /\ exZip' = NoArchive
          /\ exPc' = "cleanup"
          /\ UNCHANGED exRaisedAt
       \/ /\ Raise("move")
          /\ UNCHANGED <<exZip, exArchive>>
    /\ UNCHANGED <<exFlavor, exDatasets, exI, exScene, exTemp, exWritten>>
    /\ UNCHANGED <<exName, exRun, exFirst, exFolder, exReturn>>
    /\ UNCHANGED <<pdVars, rgVars, fgVars, grVars, clVars, vsVars>>

\* try: shutil.rmtree(temp_folder) except Exception: pass; return
Cleanup ==
    /\ exPc = "cleanup"
    /\ \/ /\ exTemp' = NoTemp
          /\ UNCHANGED exRaisedAt
       \/ \* rmtree raises and the exception is swallowed
          /\ exTemp' = exTemp
          /\ exRaisedAt' = "rmtree"
    /\ exPc' = "done"
    /\ exReturn' = TargetFile(exFlavor, exFolder, exName)
    /\ UNCHANGED <<exFlavor, exDatasets, exI, exScene, exWritten, exZip, exArchive>>
    /\ UNCHANGED <<exName, exRun, exFirst, exFolder>>
    /\ UNCHANGED <<pdVars, rgVars, fgVars, grVars, clVars, vsVars>>

\* a second to_vtkjs call on the same set, to the same folder under another
\* name, after the first has returned
ExportAgain ==
    /\ exPc = "done"
    /\ exRun = 1
    /\ exFirst' = [made |-> TRUE, archive |-> exArchive, name |-> exName,
                   datasets |-> exDatasets]
    /\ exRun' = 2
    /\ exName' \in ExportNames \ {exName}
    /\ exPc' = "start"
    /\ exI' = 0
    /\ exScene' = <<>>
    /\ exTemp' = NoTemp
    /\ exWritten' = EmptyMap
    /\ exZip' = NoArchive
    /\ exArchive' = NoArchive
    /\ exRaisedAt' = ""
    /\ exReturn' = NoPath
    /\ UNCHANGED <<exFlavor, exDatasets, exFolder>>
    /\ UNCHANGED <<pdVars, rgVars, fgVars, grVars, clVars, vsVars>>

-----------------------------------------------------------------------------
(* DisplayPolyData.from_analysis_geometry.                                 *)
(* A geometry is [kind, faces, vertices]: kind "mesh" (DisplayMesh3D,      *)
(* Mesh3D, Mesh2D, DisplayMesh2D), "point" (DisplayPoint3D, Point3D) or    *)
(* "other" (any other display geometry). A data set is [name, values]. A   *)
(* PolyData of this module version is [cells, points, data], data mapping  *)
(* a data name to [values, per_face].                                      *)

\* most geometries of an AnalysisGeometry
MaxGeoms == 2
\* most faces of one geometry
MaxFaces == 2
\* most data sets of an AnalysisGeometry
MaxDataSets == 2

DataNames == {"d1", "d2"}

Geometries ==
    {[kind |-> "mesh", faces |-> f, vertices |-> f + 2] : f \in 1..MaxFaces}
      \cup {[kind |-> "point", faces |-> 0, vertices |-> 1]}
      \cup {[kind |-> "other", faces |-> f, vertices |-> f + 2] : f \in 1..MaxFaces}

AllKind(geoms, kind) == \A i \in 1..Len(geoms) : geoms[i].kind = kind

\* geo.to_polydata(): a mesh or other geometry gives one cell per face and
\* one point per vertex, a point one vertex cell on one point
ToPolyData(geo) ==
    IF geo.kind = "point"
    THEN [cells |-> 1, points |-> 1, data |-> EmptyMap]
    ELSE [cells |-> geo.faces, points |-> geo.vertices, data |-> EmptyMap]

\* from_points3d(points): one PolyData of len(points) points in one vertex cell
FromPoints3d_First(geoms) == [cells |-> 1, points |-> 1, data |-> EmptyMap]

FromPoints3d(geoms) == [cells |-> 1, points |-> Len(geoms), data |-> EmptyMap]

RECURSIVE SumOver(_, _)
SumOver(f, n) == IF n = 0 THEN 0 ELSE f[n] + SumOver(f, n - 1)
FaceCounts(geoms) == [i \in 1..Len(geoms) |-> geoms[i].faces]
VertexCounts(geoms) == [i \in 1..Len(geoms) |-> geoms[i].vertices]

\* lines 93-100: value i of the data set repeated once per cell of poly_data
\* i, for the pairs zip(data_set.values, poly_datas) yields
PerObjectValues_Refused(values, polys) ==
    [status |-> "NotImplementedError", vals |-> <<>>]

PerObjectValues(values, polys) ==
    [status |-> "ok",
     vals |-> [i \in 1..(IF Len(values) < Len(polys) THEN Len(values) ELSE Len(polys))
                 |-> [j \in 1..polys[i].cells |-> values[i]]]]

\* values[start : start + count] of a Python list (start counted from 0)
Slice(values, start, count) ==
    LET first == IF start < Len(values) THEN start ELSE Len(values)
        last == IF start + count < Len(values) THEN start + count ELSE Len(values)
    IN [j \in 1..(last - first) |-> values[first + j]]

\* lines 103-118: the whole data set for one mesh, else consecutive runs of
\* len(geo.faces) or len(geo.vertices) values
MeshValues_Whole(values, geoms, matching) == [i \in 1..Len(geoms) |-> values]

MeshValues(values, geoms, matching) ==
    IF Len(geoms) = 1 THEN <<values>>
    ELSE LET counts == IF matching = "faces" THEN FaceCounts(geoms)
                       ELSE VertexCounts(geoms)
         IN [i \in 1..Len(geoms) |-> Slice(values, SumOver(counts, i - 1), counts[i])]

\* the branch of lines 93-123 taken for one data set: the values per
\* poly_data and the matching_method after it
DataSetValues(values, geoms, polys, matching, allMesh, allPoints) ==
    IF matching = "geometries" /\ ~allPoints
    THEN LET r == PerObjectValues(values, polys)
         IN [status |-> r.status, vals |-> r.vals, matching |-> "faces"]
    ELSE IF allPoints
    THEN [status |-> "ok", vals |-> <<values>>, matching |-> matching]
    ELSE IF allMesh
    THEN [status |-> "ok", vals |-> MeshValues(values, geoms, matching),
          matching |-> matching]
    ELSE [status |-> "AssertionError", vals |-> <<>>, matching |-> matching]

\* PolyData.add_data(data=values, name=name, per_face=per_face, ...) of the
\* PolyData this module version is written against: the name must be new and
\* the length must equal the cell count (per face) or point count
AddDataPerFace(poly, values, name, perFace) ==
    IF name \in DOMAIN poly.data
    THEN [status |-> "DuplicateFieldError", poly |-> poly]
    ELSE IF Len(values) # (IF perFace THEN poly.cells ELSE poly.points)
    THEN [status |-> "ArrayLengthMismatchError", poly |-> poly]
    ELSE [status |-> "ok",
          poly |-> [poly EXCEPT !.data =
                      Put(@, name, [values |-> values, per_face |-> perFace])]]

\* lines 126-133: add_data on every poly_data in turn; the first failure
\* ends the loop with the earlier poly_datas already changed
AddOutcome(polys, dsv, name, perFace, i) ==
    IF i > Len(dsv) THEN "IndexError"
    ELSE AddDataPerFace(polys[i], dsv[i], name, perFace).status

FirstFailure(polys, dsv, name, perFace) ==
    LET bad == {i \in 1..Len(polys) : AddOutcome(polys, dsv, name, perFace, i) # "ok"}
    IN IF bad = {} THEN 0 ELSE CHOOSE i \in bad : \A j \in bad : i <= j

AddToAll(polys, dsv, name, perFace) ==
    LET f == FirstFailure(polys, dsv, name, perFace)
        done == IF f = 0 THEN Len(polys) ELSE f - 1
    IN [status |-> IF f = 0 THEN "ok" ELSE AddOutcome(polys, dsv, name, perFace, f),
        polys |-> [i \in 1..Len(polys) |->
                     IF i <= done
                     THEN AddDataPerFace(polys[i], dsv[i], name, perFace).poly
                     ELSE polys[i]]]

NoGroup == [made |-> FALSE, polydata |-> <<>>, color_by |-> ""]

\* lines 74-89: the conversions, all_mesh, all_points and the merge of points
FagConvert ==
    /\ fgPc = "start"
    /\ fgKind = "analysis"
    /\ IF AllKind(fgGeoms, "point")
       THEN /\ fgPolys' = <<FromPoints3d(fgGeoms)>>
            /\ fgMatch' = "vertices"
       ELSE /\ fgPolys' = [i \in 1..Len(fgGeoms) |-> ToPolyData(fgGeoms[i])]
            /\ fgMatch' = fgMatching
    /\ fgDs' = 1
    /\ fgPc' = "datasets"
    /\ UNCHANGED <<fgKind, fgGeoms, fgMatching, fgDataSets, fgActive, fgColorBy,
                   fgError, fgGroup>>
    /\ UNCHANGED <<pdVars, rgVars, exVars, grVars, clVars, vsVars>>

\* lines 91-135: one turn of the loop over geometry.data_sets
FagDataSet ==
    /\ fgPc = "datasets"
    /\ fgDs <= Len(fgDataSets)
    /\ LET ds == fgDataSets[fgDs]
           dv == DataSetValues(ds.values, fgGeoms, fgPolys, fgMatch,
                               AllKind(fgGeoms, "mesh"), AllKind(fgGeoms, "point"))
       IN IF dv.status # "ok"
          THEN /\ fgPc' = "raised"
               /\ fgError' = dv.status
               /\ UNCHANGED <<fgPolys, fgMatch, fgDs, fgColorBy>>
          ELSE LET r == AddToAll(fgPolys, dv.vals, ds.name, dv.matching # "vertices")
               IN /\ fgPolys' = r.polys
                  /\ fgMatch' = dv.matching
                  /\ IF r.status # "ok"
                     THEN /\ fgPc' = "raised"
                          /\ fgError' = r.status
                          /\ UNCHANGED <<fgDs, fgColorBy>>
                     ELSE /\ fgDs' = fgDs + 1
                          /\ fgColorBy' = IF fgDs - 1 = fgActive THEN ds.name
                                          ELSE fgColorBy
                          /\ UNCHANGED <<fgPc, fgError>>
    /\ UNCHANGED <<fgKind, fgGeoms, fgMatching, fgDataSets, fgActive, fgGroup>>
    /\ UNCHANGED <<pdVars, rgVars, exVars, grVars, clVars, vsVars>>

\* lines 137-145: the DisplayPolyData is made and its color_by assigned; the
\* local color_by is unbound when no data set had the active index
FagFinish ==
    /\ fgPc = "datasets"
    /\ fgDs > Len(fgDataSets)
    /\ IF fgColorBy = ""
       THEN /\ fgPc' = "raised"
            /\ fgError' = "UnboundLocalError"
            /\ UNCHANGED fgGroup
       ELSE /\ fgPc' = "returned"
            /\ fgGroup' = [made |-> TRUE, polydata |-> fgPolys, color_by |-> fgColorBy]
            /\ UNCHANGED fgError
    /\ UNCHANGED <<fgKind, fgGeoms, fgMatching, fgDataSets, fgActive, fgPolys, fgMatch,
                   fgDs, fgColorBy>>
    /\ UNCHANGED <<pdVars, rgVars, exVars, grVars, clVars, vsVars>>

\* from_context_geometry (lines 148-184): all points become one PolyData,
\* any other list one PolyData per geometry; no data, no color_by
FagContext ==
    /\ fgPc = "start"
    /\ fgKind = "context"
    /\ LET polys == IF AllKind(fgGeoms, "point") THEN <<FromPoints3d(fgGeoms)>>
                    ELSE [i \in 1..Len(fgGeoms) |-> ToPolyData(fgGeoms[i])]
       IN /\ fgPolys' = polys
          /\ fgGroup' = [made |-> TRUE, polydata |-> polys, color_by |-> ""]
    /\ fgPc' = "returned"
    /\ UNCHANGED <<fgKind, fgGeoms, fgMatching, fgDataSets, fgActive, fgMatch, fgDs,
                   fgColorBy, fgError>>
    /\ UNCHANGED <<pdVars, rgVars, exVars, grVars, clVars, vsVars>>

-----------------------------------------------------------------------------
(* A display group: DisplayPolyData and ModelDataSet.                      *)
(* An owned PolyData is [buf, activeCell, activePoint, color_by]: the      *)
(* buffer and active scalars as above, and color_by the value of the       *)
(* PolyData.color_by property that DisplayPolyData reads ("" for None).    *)

\* most operations followed on one group
MaxGroupCalls == 2

\* DisplayMode of vtkjs/schema.py and the values of its members
DisplayModes == {"Points", "Wireframe", "Surface", "SurfaceWithEdges"}
ModeValue(mode) ==
    IF mode = "Surface" THEN 2
    ELSE IF mode = "SurfaceWithEdges" THEN 3
    ELSE IF mode = "Wireframe" THEN 1
    ELSE 0

\* the edge_visibility property: False for the values 0 and 2, else True
EdgeVisibility(mode) == ~(ModeValue(mode) \in {0, 2})

\* 'representation': min(self.display_mode.value, 2)
Representation_Unclamped(mode) == ModeValue(mode)

Representation(mode) == IF ModeValue(mode) < 2 THEN ModeValue(mode) ELSE 2

NoEntry == [made |-> FALSE, representation |-> 0, edgeVisibility |-> 0,
            colorByArrayName |-> ""]
NoGroupCall == [op |-> "none", value |-> "", result |-> "ok"]

\* a Color is [r, g, b, a], each channel in 0..255; the color a group takes
\* when none is given is Color(204, 204, 204, 255)
DefaultColor == [r |-> 204, g |-> 204, b |-> 204, a |-> 255]
GroupColors == {DefaultColor, [r |-> 0, g |-> 0, b |-> 255, a |-> 128]}
\* the values assigned to opacity
Opacities == {0, 128, 255}

\* Color.duplicate(): another Color of the same channels
Duplicate(color) == color

\* the opacity getters: self.color.a
Opacity(color) == color.a

\* the opacity setter of DisplayPolyData (lines 221-224): the alpha is
\* assigned to a duplicate of self.color, which is then dropped; ModelDataSet
\* has no opacity setter, the assignment raises AttributeError. The result is
\* the group's _color after the assignment.
SetOpacity(flavor, color, value) ==
    IF flavor = "ModelDataSet"
    THEN [color |-> color, result |-> "AttributeError"]
    ELSE LET dup == [Duplicate(color) EXCEPT !.a = value]
         IN [color |-> color, result |-> "ok"]

\* PolyData.color_by(name, cell) on an owned PolyData
PolyColorBy(p, name, cell) ==
    LET r == ColorByOp(p.buf, p.activeCell, p.activePoint, name, cell)
    IN [status |-> r.result,
        poly |-> [p EXCEPT !.activeCell = r.activeCell, !.activePoint = r.activePoint]]

\* the assignment PolyData.color_by = name of the PolyData that
\* display_polydata.py is written against: the name must be a field, which
\* then is the one active field of the buffer
SetActiveField(p, name) ==
    IF name \notin DOMAIN p.buf.fields
    THEN [status |-> "UnknownFieldError", poly |-> p]
    ELSE [status |-> "ok",
          poly |-> [p EXCEPT !.color_by = name,
                             !.activeCell = IF p.buf.fields[name].per_face
                                            THEN name ELSE "",
                             !.activePoint = IF p.buf.fields[name].per_face
                                             THEN "" ELSE name]]

\* the loops of the color_by setters (model_dataset.py:114-115,
\* display_polydata.py:213-214) over the owned PolyData: the first failure
\* ends the loop with the earlier PolyData already changed
CascadeStep(flavor, p, name, cell) ==
    IF flavor = "ModelDataSet" THEN PolyColorBy(p, name, cell)
    ELSE SetActiveField(p, name)

Cascade(flavor, polys, name, cell) ==
    LET bad == {i \in 1..Len(polys) :
                  CascadeStep(flavor, polys[i], name, cell).status # "ok"}
        f == IF bad = {} THEN 0 ELSE CHOOSE i \in bad : \A j \in bad : i <= j
        done == IF f = 0 THEN Len(polys) ELSE f - 1
    IN [status |-> IF f = 0 THEN "ok"
                   ELSE CascadeStep(flavor, polys[f], name, cell).status,
        polys |-> [i \in 1..Len(polys) |->
                     IF i <= done THEN CascadeStep(flavor, polys[i], name, cell).poly
                     ELSE polys[i]]]

\* ModelDataSet.fields_info: the _fields of the first PolyData, {} when empty
FieldsInfo(polys) == IF Len(polys) = 0 THEN EmptyMap ELSE polys[1].buf.fields

\* the color_by setters: the PolyData, the group's _color_by and the outcome
\* after the assignment color_by = value ("" for None)
GroupColorByOp(flavor, polys, cur, value) ==
    IF flavor = "ModelDataSet"
    THEN IF value = ""
         THEN [polys |-> polys, color_by |-> "", result |-> "ok"]
         ELSE IF value \notin DOMAIN FieldsInfo(polys)
         THEN [polys |-> polys, color_by |-> cur, result |-> "AssertionError"]
         ELSE LET c == Cascade(flavor, polys, value, FieldsInfo(polys)[value].per_face)
              IN [polys |-> c.polys,
                  color_by |-> IF c.status = "ok" THEN value ELSE cur,
                  result |-> c.status]
    ELSE LET c == Cascade(flavor, polys, value, TRUE)
         IN [polys |-> c.polys, color_by |-> cur, result |-> c.status]

\* the color_by getters: ModelDataSet returns _color_by, DisplayPolyData
\* self.polydata[0].color_by
GroupColorBy(flavor, polys, cur) ==
    IF flavor = "ModelDataSet" THEN [status |-> "ok", value |-> cur]
    ELSE IF Len(polys) = 0 THEN [status |-> "IndexError", value |-> ""]
    ELSE [status |-> "ok", value |-> polys[1].color_by]

\* to_vtk_dataset (DisplayPolyData) / as_data_set (ModelDataSet): the
\* property and mapper blocks of the manifest entry
ToDataset(flavor, polys, cur, mode) ==
    LET cb == GroupColorBy(flavor, polys, cur)
    IN IF cb.status # "ok" THEN [status |-> cb.status, entry |-> NoEntry]
       ELSE [status |-> "ok",
             entry |-> [made |-> TRUE,
                        representation |-> Representation(mode),
                        edgeVisibility |-> IF EdgeVisibility(mode) THEN 1 ELSE 0,
                        colorByArrayName |-> cb.value]]

GroupSetColorBy(value) ==
    LET r == GroupColorByOp(grFlavor, grPolys, grColorBy, value) IN
    /\ grCalls < MaxGroupCalls
    /\ grPolys' = r.polys
    /\ grColorBy' = r.color_by
    /\ grLast' = [op |-> "color_by", value |-> value, result |-> r.result]
    /\ grCalls' = grCalls + 1
    /\ UNCHANGED <<grFlavor, grMode, grColor, grEntry>>

\* the display_mode setter
GroupSetDisplayMode(mode) ==
    /\ grCalls < MaxGroupCalls
    /\ grMode' = mode
    /\ grLast' = [op |-> "display_mode", value |-> mode, result |-> "ok"]
    /\ grCalls' = grCalls + 1
    /\ UNCHANGED <<grFlavor, grPolys, grColorBy, grColor, grEntry>>

GroupToDataset ==
    LET r == ToDataset(grFlavor, grPolys, grColorBy, grMode) IN
    /\ grCalls < MaxGroupCalls
    /\ grEntry' = IF r.status = "ok" THEN r.entry ELSE grEntry
    /\ grLast' = [op |-> "to_dataset", value |-> "", result |-> r.status]
    /\ grCalls' = grCalls + 1
    /\ UNCHANGED <<grFlavor, grPolys, grColorBy, grMode, grColor>>

\* the assignment opacity = value
GroupSetOpacity(value) ==
    LET r == SetOpacity(grFlavor, grColor, value) IN
    /\ grCalls < MaxGroupCalls
    /\ grColor' = r.color
    /\ grLast' = [op |-> "opacity", value |-> value, result |-> r.result]
    /\ grCalls' = grCalls + 1
    /\ UNCHANGED <<grFlavor, grPolys, grColorBy, grMode, grEntry>>

\* ModelDataSet.add_data_fields(data, name, per_face, data_range=dr) (lines
\* 70-76): the lengths are compared, then add_data is called on each PolyData
\* in turn with its own list; the first call that raises ends the loop with
\* the earlier PolyData, and whatever the failed call attached, changed
AddDataFieldsOp(polys, data, name, perFace, dr) ==
    IF Len(polys) # Len(data)
    THEN [polys |-> polys, result |-> "AssertionError"]
    ELSE LET added == [i \in 1..Len(polys) |->
                         AddDataOp(polys[i].buf, name, data[i], perFace, dr, FALSE)]
             bad == {i \in 1..Len(polys) : added[i].result # "ok"}
             f == IF bad = {} THEN 0 ELSE CHOOSE i \in bad : \A j \in bad : i <= j
         IN [polys |-> [i \in 1..Len(polys) |->
                          IF f = 0 \/ i <= f
                          THEN [polys[i] EXCEPT !.buf = added[i].buf]
                          ELSE polys[i]],
             result |-> IF f = 0 THEN "ok" ELSE added[f].result]

GroupAddDataFields(data, name, perFace, dr) ==
    LET r == AddDataFieldsOp(grPolys, data, name, perFace, dr) IN
    /\ grCalls < MaxGroupCalls
    /\ grFlavor = "ModelDataSet"
    /\ grPolys' = r.polys
    /\ grLast' = [op |-> "add_data_fields", value |-> name, result |-> r.result]
    /\ grCalls' = grCalls + 1
    /\ UNCHANGED <<grFlavor, grColorBy, grMode, grColor, grEntry>>

-----------------------------------------------------------------------------
(* The vis-to-vtk command: vis_set_to_vtk_cli and vis_set_to_vtk.          *)

\* the --output-format values tried: the two formats, in lower and in upper
\* case, and a format that is not one
ClFormats == {"vtkjs", "VTKJS", "html", "HTML", "obj"}
\* the --output-file values: the default '-' (stdout) or a named file
ClOutputs == {"-", "out.vtkjs"}
\* no exit code yet
NoExit == -1

\* output_format.lower()
Lower(fmt) ==
    IF fmt = "VTKJS" THEN "vtkjs" ELSE IF fmt = "HTML" THEN "html" ELSE fmt

\* the class is caught by 'except Exception'
IsException(cls) == cls # "KeyboardInterrupt"

\* lines 42-48: sys.exit(0) in the else clause, logging and sys.exit(1) in
\* the except clause; any other exception leaves the callback, and click's
\* main turns a KeyboardInterrupt into 'Aborted!' and exit code 1
Handler_Zero(raised) == [exit |-> 0, logged |-> FALSE]

Handler(raised) ==
    IF raised = "" THEN [exit |-> 0, logged |-> FALSE]
    ELSE IF IsException(raised) THEN [exit |-> 1, logged |-> TRUE]
    ELSE [exit |-> 1, logged |-> FALSE]

\* vis_set_to_vtk raises cls
ClRaise(cls) ==
    /\ clRaised' = cls
    /\ clPc' = "handler"

\* lines 23-34: click converts the arguments; a vis-file that is no existing
\* file is a usage error, exit code 2, and the callback is never called
ClParse ==
    /\ clPc = "start"
    /\ IF clFileOk
       THEN /\ clPc' = "load"
            /\ clCalled' = TRUE
            /\ UNCHANGED clExit
       ELSE /\ clPc' = "exited"
            /\ clExit' = 2
            /\ UNCHANGED clCalled
    /\ UNCHANGED <<clFileOk, clFormat, clOutput, clReturned, clRaised, clWrote, clLogged>>
    /\ UNCHANGED <<pdVars, rgVars, exVars, fgVars, grVars, vsVars>>

\* line 64: VisualizationSet.from_file(vis_file), which raises for a file
\* that is no visualization set
ClLoad ==
    /\ clPc = "load"
    /\ \/ /\ clPc' = "format"
          /\ UNCHANGED clRaised
       \/ ClRaise("Exception")
    /\ UNCHANGED <<clFileOk, clFormat, clOutput, clCalled, clReturned, clWrote, clLogged,
                   clExit>>
    /\ UNCHANGED <<pdVars, rgVars, exVars, fgVars, grVars, vsVars>>

\* lines 65-67: the format in lower case must be vtkjs or html
ClCheckFormat ==
    /\ clPc = "format"
    /\ IF Lower(clFormat) \notin {"vtkjs", "html"}
       THEN ClRaise("ValueError")
       ELSE /\ clPc' = "export"
            /\ UNCHANGED clRaised
    /\ UNCHANGED <<clFileOk, clFormat, clOutput, clCalled, clReturned, clWrote, clLogged,
                   clExit>>
    /\ UNCHANGED <<pdVars, rgVars, exVars, fgVars, grVars, vsVars>>

\* lines 69-87: the output folder and name, then to_vtkjs or to_html, which
\* may raise or be interrupted from the keyboard
ClExport ==
    /\ clPc = "export"
    /\ \/ /\ clWrote' = Lower(clFormat)
          /\ clPc' = "output"
          /\ UNCHANGED clRaised
       \/ /\ \E cls \in {"Exception", "KeyboardInterrupt"} : ClRaise(cls)
          /\ UNCHANGED clWrote
    /\ UNCHANGED <<clFileOk, clFormat, clOutput, clCalled, clReturned, clLogged, clExit>>
    /\ UNCHANGED <<pdVars, rgVars, exVars, fgVars, grVars, vsVars>>

\* lines 89-105: for stdout the file written is read back and its contents
\* written to output_file; then the function returns
ClOutput ==
    /\ clPc = "output"
    /\ \/ /\ clReturned' = TRUE
          /\ clPc' = "handler"
          /\ UNCHANGED clRaised
       \/ /\ clOutput = "-"
          /\ ClRaise("Exception")
          /\ UNCHANGED clReturned
    /\ UNCHANGED <<clFileOk, clFormat, clOutput, clCalled, clWrote, clLogged, clExit>>
    /\ UNCHANGED <<pdVars, rgVars, exVars, fgVars, grVars, vsVars>>

\* lines 44-48: the except and else clauses of the callback
ClFinish ==
    /\ clPc = "handler"
    /\ clExit' = Handler(clRaised).exit
    /\ clLogged' = Handler(clRaised).logged
    /\ clPc' = "exited"
    /\ UNCHANGED <<clFileOk, clFormat, clOutput, clCalled, clReturned, clRaised, clWrote>>
    /\ UNCHANGED <<pdVars, rgVars, exVars, fgVars, grVars, vsVars>>

-----------------------------------------------------------------------------
(* vis_set.from_analysis_geometry and vis_set._data_mapping.               *)
(* Geometries and data sets are as for DisplayPolyData above; a PolyData   *)
(* here is an owned PolyData of polydata.py with its cell and point        *)
(* counts.                                                                 *)

\* face_count of lines 40-48: len(geometry.faces), len(geometry.face_indices),
\* or 1 for a geometry with neither (a point has neither)
VsFaceCount(geo) == IF geo.kind = "point" THEN 1 ELSE geo.faces

\* vertices_count of lines 49-53: len(geometry.vertices), or 0 without them
VsVertexCount(geo) == IF geo.kind = "point" THEN 0 ELSE geo.vertices

\* lines 56-66: the mapping of one data set of n values, "invalid" where
\* the function raises ValueError
MappingOf(n, objects, faces, vertices) ==
    IF n = objects THEN "object"
    ELSE IF n = faces THEN "face"
    ELSE IF n = vertices THEN "vertices"
    ELSE "invalid"

\* _data_mapping(analysis_geo): the counts are those of the first geometry
DataMapping(geoms, dataSets) ==
    LET m == [k \in 1..Len(dataSets) |->
                MappingOf(Len(dataSets[k].values), Len(geoms),
                          VsFaceCount(geoms[1]), VsVertexCount(geoms[1]))]
    IN IF \E k \in 1..Len(dataSets) : m[k] = "invalid"
       THEN [status |-> "ValueError", mappings |-> <<>>]
       ELSE [status |-> "ok", mappings |-> m]

\* geometry.to_polydata() as a PolyData of polydata.py owned by a group
VsToPolyData(geo) ==
    [cells |-> ToPolyData(geo).cells, points |-> ToPolyData(geo).points,
     buf |-> FreshBuffer, activeCell |-> "", activePoint |-> "", color_by |-> ""]

\* data_set.values as the list of floats handed to add_data
VsValues(values) == [j \in 1..Len(values) |-> [t |-> "float", v |-> values[j]]]

\* lines 95-105: add_data of the whole data set on every poly_data in turn,
\* with data_range (legend min, legend max), both None here; the first
\* failure ends the loop with the earlier poly_datas already changed
VsAddToAll(polys, values, name, cell) ==
    LET added == [i \in 1..Len(polys) |->
                    AddDataOp(polys[i].buf, name, VsValues(values), cell,
                              Pair(None, None), FALSE)]
        bad == {i \in 1..Len(polys) : added[i].result # "ok"}
        f == IF bad = {} THEN 0 ELSE CHOOSE i \in bad : \A j \in bad : i <= j
    IN [status |-> IF f = 0 THEN "ok" ELSE added[f].result,
        polys |-> [i \in 1..Len(polys) |->
                     IF f = 0 \/ i <= f THEN [polys[i] EXCEPT !.buf = added[i].buf]
                     ELSE polys[i]]]

NoModelDataSet == [made |-> FALSE, data |-> <<>>, color_by |-> "", mode |-> "Surface"]

\* lines 75-76: the conversions and the mappings
VsConvert ==
    /\ vsPc = "start"
    /\ vsPolys' = [i \in 1..Len(vsGeoms) |-> VsToPolyData(vsGeoms[i])]
    /\ LET m == DataMapping(vsGeoms, vsDataSets)
       IN IF m.status # "ok"
          THEN /\ vsPc' = "raised"
               /\ vsError' = m.status
               /\ UNCHANGED <<vsMappings, vsDs>>
          ELSE /\ vsMappings' = m.mappings
               /\ vsDs' = 1
               /\ vsPc' = "datasets"
               /\ UNCHANGED vsError
    /\ UNCHANGED <<vsGeoms, vsMatching, vsDataSets, vsActive, vsColorBy, vsGroup>>
    /\ UNCHANGED <<pdVars, rgVars, exVars, fgVars, grVars, clVars>>

\* lines 78-107: one turn of the loop over the data sets and their mappings
VsDataSet ==
    /\ vsPc = "datasets"
    /\ vsDs <= Len(vsDataSets)
    /\ IF vsMappings[vsDs] = "object"
       THEN /\ vsPc' = "raised"
            /\ vsError' = "NotImplementedError"
            /\ UNCHANGED <<vsPolys, vsDs, vsColorBy>>
       ELSE LET ds == vsDataSets[vsDs]
                r == VsAddToAll(vsPolys, ds.values, ds.name,
                                vsMappings[vsDs] # "vertices")
            IN /\ vsPolys' = r.polys
               /\ IF r.status # "ok"
                  THEN /\ vsPc' = "raised"
                       /\ vsError' = r.status
                       /\ UNCHANGED <<vsDs, vsColorBy>>
                  ELSE /\ vsDs' = vsDs + 1
                       /\ vsColorBy' = IF vsDs - 1 = vsActive THEN ds.name
                                       ELSE vsColorBy
                       /\ UNCHANGED <<vsPc, vsError>>
    /\ UNCHANGED <<vsGeoms, vsMatching, vsDataSets, vsActive, vsMappings, vsGroup>>
    /\ UNCHANGED <<pdVars, rgVars, exVars, fgVars, grVars, clVars>>

\* lines 109-113: the ModelDataSet is made, its color_by assigned and its
\* display mode set; the local color_by is unbound when no data set had
\* the active index
VsFinish ==
    /\ vsPc = "datasets"
    /\ vsDs > Len(vsDataSets)
    /\ IF vsColorBy = ""
       THEN /\ vsPc' = "raised"
            /\ vsError' = "UnboundLocalError"
            /\ UNCHANGED <<vsPolys, vsGroup>>
       ELSE LET c == GroupColorByOp("ModelDataSet", vsPolys, "", vsColorBy)
            IN /\ vsPolys' = c.polys
               /\ IF c.result # "ok"
                  THEN /\ vsPc' = "raised"
                       /\ vsError' = c.result
                       /\ UNCHANGED vsGroup
                  ELSE /\ vsPc' = "returned"
                       /\ vsGroup' = [made |-> TRUE, data |-> c.polys,
                                      color_by |-> c.color_by,
                                      mode |-> "SurfaceWithEdges"]
                       /\ UNCHANGED vsError
    /\ UNCHANGED <<vsGeoms, vsMatching, vsDataSets, vsActive, vsMappings, vsDs,
                   vsColorBy>>
    /\ UNCHANGED <<pdVars, rgVars, exVars, fgVars, grVars, clVars>>

-----------------------------------------------------------------------------
(* Specifications. *)

vars == <<pdVars, rgVars, exVars, fgVars, grVars, clVars, vsVars>>

PdIdle ==
    /\ nCells = 0 /\ nPoints = 0
    /\ cellData = EmptyMap /\ pointData = EmptyMap /\ fields = EmptyMap
    /\ activeCell = "" /\ activePoint = "" /\ nCalls = 0
    /\ lastCall = NoCall

RgIdle ==
    /\ rgArray = [kind |-> "float", vals |-> <<0>>]
    /\ rgRange = Absent
    /\ rgOut = [status |-> "idle", value |-> PyNone]

ExIdle ==
    /\ exFlavor = "VisualizationSet"
    /\ exDatasets = <<>>
    /\ exPc = "idle"
    /\ exI = 0
    /\ exScene = <<>>
    /\ exTemp = NoTemp
    /\ exWritten = EmptyMap
    /\ exZip = NoArchive
    /\ exArchive = NoArchive
    /\ exRaisedAt = ""
    /\ exName = ""
    /\ exRun = 0
    /\ exFirst = NoFirst
    /\ exFolder = "."
    /\ exReturn = NoPath

FgIdle ==
    /\ fgKind = "analysis"
    /\ fgGeoms = <<>>
    /\ fgMatching = "faces"
    /\ fgDataSets = <<>>
    /\ fgActive = 0
    /\ fgPc = "idle"
    /\ fgPolys = <<>>
    /\ fgMatch = "faces"
    /\ fgDs = 0
    /\ fgColorBy = ""
    /\ fgError = ""
    /\ fgGroup = NoGroup

GrIdle ==
    /\ grFlavor = "DisplayPolyData"
    /\ grPolys = <<>>
    /\ grColorBy = ""
    /\ grMode = "Surface"
    /\ grColor = DefaultColor
    /\ grEntry = NoEntry
    /\ grCalls = 0
    /\ grLast = NoGroupCall

ClIdle ==
    /\ clFileOk = TRUE
    /\ clFormat = "vtkjs"
    /\ clOutput = "-"
    /\ clPc = "idle"
    /\ clCalled = FALSE
    /\ clReturned = FALSE
    /\ clRaised = ""
    /\ clWrote = ""
    /\ clLogged = FALSE
    /\ clExit = NoExit

VsIdle ==
    /\ vsGeoms = <<>>
    /\ vsMatching = "faces"
    /\ vsDataSets = <<>>
    /\ vsActive = 0
    /\ vsPc = "idle"
    /\ vsMappings = <<>>
    /\ vsPolys = <<>>
    /\ vsDs = 0
    /\ vsColorBy = ""
    /\ vsError = ""
    /\ vsGroup = NoModelDataSet

\* ---- Spec: one add_data call on a PolyData
Init ==
    /\ nCells \in 1..MaxCount
    /\ nPoints \in 1..MaxCount
    /\ \E b \in BuffersBefore(nCells, nPoints) :
          /\ cellData = b.cellData
          /\ pointData = b.pointData
          /\ fields = b.fields
    /\ activeCell = "" /\ activePoint = "" /\ nCalls = 0
    /\ lastCall = NoCall
    /\ RgIdle
    /\ ExIdle
    /\ FgIdle
    /\ GrIdle
    /\ ClIdle
    /\ VsIdle

Next ==
    /\ lastCall.op = "none"
    /\ \E name \in Names, data \in DataLists, cell \in BOOLEAN,
          dr \in DataRanges, truncates \in BOOLEAN :
           AddData(name, data, cell, dr, truncates)
    /\ UNCHANGED <<rgVars, exVars, fgVars, grVars, clVars, vsVars>>

Spec == Init /\ [][Next]_vars

\* ---- SpecCalls: a sequence of add_data and color_by calls on one PolyData
\* most calls of a sequence
MaxCalls == 4

\* the data lists of the calls: one float, two floats, one string
CallLists ==
    {<<[t |-> "float", v |-> 0]>>,
     <<[t |-> "float", v |-> 1], [t |-> "float", v |-> 0]>>,
     <<[t |-> "str", v |-> 0]>>}
\* the data_range arguments of the calls: left at None, a valid pair, or a
\* pair that is refused
CallRanges == {Absent, Pair(Num(0), Num(1)), Pair(Num(1), Num(0))}

\* a PolyData of one cell on MaxCount points, as constructed
InitCalls ==
    /\ nCells = 1
    /\ nPoints = MaxCount
    /\ cellData = EmptyMap /\ pointData = EmptyMap /\ fields = EmptyMap
    /\ activeCell = "" /\ activePoint = "" /\ nCalls = 0
    /\ lastCall = NoCall
    /\ RgIdle
    /\ ExIdle
    /\ FgIdle
    /\ GrIdle
    /\ ClIdle
    /\ VsIdle

CallAddData ==
    /\ nCalls < MaxCalls
    /\ \E name \in Names, data \in CallLists, cell \in BOOLEAN, dr \in CallRanges :
           AddData(name, data, cell, dr, FALSE)
    /\ UNCHANGED <<rgVars, exVars, fgVars, grVars, clVars, vsVars>>

CallColorBy ==
    /\ nCalls < MaxCalls
    /\ \E name \in Names, cell \in BOOLEAN : ColorBy(name, cell)
    /\ UNCHANGED <<rgVars, exVars, fgVars, grVars, clVars, vsVars>>

NextCalls ==
    \/ CallAddData
    \/ CallColorBy

SpecCalls == InitCalls /\ [][NextCalls]_vars

\* ---- SpecGroup: operations on one display group
\* the PolyData a group is made of, each built by add_data calls on a fresh
\* PolyData: no field; the numeric field "a" per face; "a" per point; the
\* string field "a" per face; "a" per face and "b" per point
GroupBuffers ==
    LET one == <<[t |-> "float", v |-> 0]>>
        str == <<[t |-> "str", v |-> 0]>>
        cellA == AddDataOp(FreshBuffer, "a", one, TRUE, Absent, FALSE).buf
    IN {FreshBuffer,
        cellA,
        AddDataOp(FreshBuffer, "a", one, FALSE, Absent, FALSE).buf,
        AddDataOp(FreshBuffer, "a", str, TRUE, EmptyRange, FALSE).buf,
        AddDataOp(cellA, "b", one, FALSE, Absent, FALSE).buf}

OwnedPolyData ==
    {[buf |-> b, activeCell |-> "", activePoint |-> "", color_by |-> ""] :
       b \in GroupBuffers}

\* a DisplayPolyData is constructed with any display mode; a ModelDataSet
\* starts in DisplayMode.Shaded, the name model_dataset.py:129 gives as the
\* other name of Surface
InitGroup ==
    /\ grFlavor \in {"DisplayPolyData", "ModelDataSet"}
    /\ grPolys \in SeqsUpTo(OwnedPolyData, MaxPoly)
    /\ grColorBy = ""
    /\ grMode \in (IF grFlavor = "DisplayPolyData" THEN DisplayModes ELSE {"Surface"})
    /\ grColor \in GroupColors
    /\ grEntry = NoEntry
    /\ grCalls = 0
    /\ grLast = NoGroupCall
    /\ PdIdle
    /\ ClIdle
    /\ VsIdle
    /\ RgIdle
    /\ ExIdle
    /\ FgIdle

GroupAssignColorBy ==
    /\ \E value \in Names \cup {""} : GroupSetColorBy(value)
    /\ UNCHANGED <<pdVars, rgVars, exVars, fgVars, clVars, vsVars>>

GroupAssignDisplayMode ==
    /\ \E mode \in DisplayModes : GroupSetDisplayMode(mode)
    /\ UNCHANGED <<pdVars, rgVars, exVars, fgVars, clVars, vsVars>>

GroupMakeEntry ==
    /\ GroupToDataset
    /\ UNCHANGED <<pdVars, rgVars, exVars, fgVars, clVars, vsVars>>

GroupAssignOpacity ==
    /\ \E value \in Opacities : GroupSetOpacity(value)
    /\ UNCHANGED <<pdVars, rgVars, exVars, fgVars, clVars, vsVars>>

NextGroup ==
    \/ GroupAssignColorBy
    \/ GroupAssignDisplayMode
    \/ GroupMakeEntry
    \/ GroupAssignOpacity

SpecGroup == InitGroup /\ [][NextGroup]_vars

\* ---- SpecFields: add_data_fields calls on one ModelDataSet
\* the field names of every PolyData of the list are the same
SameFields(polys) ==
    \A i, j \in 1..Len(polys) : DOMAIN polys[i].buf.fields = DOMAIN polys[j].buf.fields

\* the lists handed to add_data_fields, one per PolyData: one float, or an
\* empty list, which add_data refuses
FieldLists == {<<[t |-> "float", v |-> 0]>>, <<>>}

\* a ModelDataSet whose PolyData carry identically-named fields
InitFields ==
    /\ grFlavor = "ModelDataSet"
    /\ grPolys \in {ps \in SeqsUpTo(OwnedPolyData, MaxPoly) : SameFields(ps)}
    /\ grColorBy = ""
    /\ grMode = "Surface"
    /\ grColor \in GroupColors
    /\ grEntry = NoEntry
    /\ grCalls = 0
    /\ grLast = NoGroupCall
    /\ PdIdle
    /\ RgIdle
    /\ ExIdle
    /\ FgIdle
    /\ ClIdle
    /\ VsIdle

GroupAddFields ==
    /\ grCalls < MaxGroupCalls
    /\ \E data \in SeqsUpTo(FieldLists, MaxPoly), name \in Names, perFace \in BOOLEAN,
          dr \in {Absent, Pair(Num(1), Num(0))} :
           GroupAddDataFields(data, name, perFace, dr)
    /\ UNCHANGED <<pdVars, rgVars, exVars, fgVars, clVars, vsVars>>

NextFields == GroupAddFields

SpecFields == InitFields /\ [][NextFields]_vars

\* ---- SpecCli: one run of the vis-to-vtk command
InitCli ==
    /\ clFileOk \in BOOLEAN
    /\ clFormat \in ClFormats
    /\ clOutput \in ClOutputs
    /\ clPc = "start"
    /\ clCalled = FALSE
    /\ clReturned = FALSE
    /\ clRaised = ""
    /\ clWrote = ""
    /\ clLogged = FALSE
    /\ clExit = NoExit
    /\ PdIdle
    /\ RgIdle
    /\ ExIdle
    /\ FgIdle
    /\ GrIdle
    /\ VsIdle

NextCli ==
    \/ ClParse
    \/ ClLoad
    \/ ClCheckFormat
    \/ ClExport
    \/ ClOutput
    \/ ClFinish

SpecCli == InitCli /\ [][NextCli]_vars

\* ---- SpecRange: one evaluation of _get_data_range
\* the arrays add_data can build: numeric of 1..MaxLen values, or strings
RangeArrays ==
    {[kind |-> k, vals |-> vs] : k \in {"float", "int"},
                                vs \in SeqsUpTo(Vals, MaxLen) \ {<<>>}}
      \cup {[kind |-> "str", vals |-> vs] : vs \in SeqsUpTo({0}, MaxLen) \ {<<>>}}

InitRange ==
    /\ rgArray \in RangeArrays
    /\ rgRange \in DataRanges
    /\ rgOut = [status |-> "pending", value |-> PyNone]
    /\ PdIdle
    /\ ClIdle
    /\ VsIdle
    /\ ExIdle
    /\ FgIdle
    /\ GrIdle

ResolveRange ==
    /\ rgOut.status = "pending"
    /\ rgOut' = GetDataRange(rgRange, rgArray)
    /\ UNCHANGED <<rgArray, rgRange>>

NextRange == ResolveRange /\ UNCHANGED <<pdVars, exVars, fgVars, grVars, clVars, vsVars>>

SpecRange == InitRange /\ [][NextRange]_vars

\* ---- SpecLegend: one evaluation of _get_data_range on three values
\* the values of the arrays: those of the list [1, 5, 3]
LegendVals == {1, 3, 5}
LegendArrays ==
    {[kind |-> k, vals |-> vs] : k \in {"float", "int"}, vs \in [1..3 -> LegendVals]}

InitLegend ==
    /\ rgArray \in LegendArrays
    /\ rgRange \in DataRanges
    /\ rgOut = [status |-> "pending", value |-> PyNone]
    /\ PdIdle
    /\ ExIdle
    /\ FgIdle
    /\ GrIdle
    /\ ClIdle
    /\ VsIdle

SpecLegend == InitLegend /\ [][NextRange]_vars

\* ---- SpecExport: one to_vtkjs call on a VisualizationSet or a Model
InitExport ==
    /\ exFlavor \in {"VisualizationSet", "Model"}
    /\ exDatasets \in SeqsUpTo(Datasets, MaxDatasets)
    /\ exPc = "start"
    /\ exI = 0
    /\ exScene = <<>>
    /\ exTemp = NoTemp
    /\ exWritten = EmptyMap
    /\ exZip = NoArchive
    /\ exArchive = NoArchive
    /\ exRaisedAt = ""
    /\ exName \in ExportNames
    /\ exRun = 1
    /\ exFirst = NoFirst
    /\ exFolder \in ExportFolders
    /\ exReturn = NoPath
    /\ PdIdle
    /\ ClIdle
    /\ VsIdle
    /\ RgIdle
    /\ FgIdle
    /\ GrIdle

NextExport ==
    \/ Mkdtemp
    \/ WriteDataset
    \/ WriteIndex
    \/ ZipFolder
    \/ MoveArchive
    \/ Cleanup
    \/ ExportAgain

SpecExport == InitExport /\ [][NextExport]_vars

\* ---- SpecFag: one from_analysis_geometry call
\* the length a data set has under the declared matching method
DeclaredLength(geoms, matching) ==
    IF matching = "geometries" THEN Len(geoms)
    ELSE IF matching = "faces" THEN SumOver(FaceCounts(geoms), Len(geoms))
    ELSE SumOver(VertexCounts(geoms), Len(geoms))

\* the data sets of the given names, data set k having the length of the
\* declared matching method plus extra[k]; data set values are their own
\* positions, so that a value tells where in the data set it came from
DataSetsOf(names, geoms, matching, extra) ==
    [k \in 1..Len(names) |->
       [name |-> names[k],
        values |-> [j \in 1..(DeclaredLength(geoms, matching) + extra[k]) |-> j]]]

\* the geometry and declared matching of a call: per face for meshes only,
\* per vertex for meshes or points; a ContextGeometry declares none
FagGeometry ==
    /\ fgKind \in {"analysis", "context"}
    /\ fgGeoms \in SeqsUpTo(Geometries, MaxGeoms) \ {<<>>}
    /\ fgMatching \in (IF fgKind = "context" THEN {"none"}
                       ELSE {"geometries", "faces", "vertices"})
    /\ fgMatching = "faces" => AllKind(fgGeoms, "mesh")
    /\ fgMatching = "vertices" => AllKind(fgGeoms, "mesh") \/ AllKind(fgGeoms, "point")
    /\ fgActive \in (IF fgKind = "context" THEN {0} ELSE 0..(MaxDataSets - 1))

\* the call has not started
FagStart ==
    /\ fgPc = "start"
    /\ fgPolys = <<>>
    /\ fgMatch = fgMatching
    /\ fgDs = 0
    /\ fgColorBy = ""
    /\ fgError = ""
    /\ fgGroup = NoGroup
    /\ PdIdle
    /\ ClIdle
    /\ VsIdle
    /\ RgIdle
    /\ ExIdle
    /\ GrIdle

\* every data set has the length its matching method declares; a
\* ContextGeometry has no data sets
InitFag ==
    /\ FagGeometry
    /\ IF fgKind = "context" THEN fgDataSets = <<>>
       ELSE \E names \in SeqsUpTo(DataNames, MaxDataSets) :
               fgDataSets = DataSetsOf(names, fgGeoms, fgMatching,
                                       [k \in 1..Len(names) |-> 0])
    /\ FagStart

NextFag ==
    \/ FagConvert
    \/ FagDataSet
    \/ FagFinish
    \/ FagContext

SpecFag == InitFag /\ [][NextFag]_vars

\* ---- SpecFagAny: one from_analysis_geometry or from_context_geometry call
\* whose data sets may be one value shorter or longer than declared
InitFagAny ==
    /\ FagGeometry
    /\ IF fgKind = "context" THEN fgDataSets = <<>>
       ELSE \E names \in SeqsUpTo(DataNames, MaxDataSets) :
               \E extra \in [1..Len(names) -> {-1, 0, 1}] :
                  fgDataSets = DataSetsOf(names, fgGeoms, fgMatching, extra)
    /\ FagStart

SpecFagAny == InitFagAny /\ [][NextFag]_vars

\* ---- SpecVisSet: one vis_set.from_analysis_geometry call on an
\* AnalysisGeometry whose data sets have the length of its matching method
InitVisSet ==
    /\ vsGeoms \in SeqsUpTo(Geometries, MaxGeoms) \ {<<>>}
    /\ vsMatching \in {"geometries", "faces", "vertices"}
    /\ vsMatching = "faces" => AllKind(vsGeoms, "mesh")
    /\ vsMatching = "vertices" => AllKind(vsGeoms, "mesh")
    /\ vsActive \in 0..(MaxDataSets - 1)
    /\ \E names \in SeqsUpTo(DataNames, MaxDataSets) :
          vsDataSets = DataSetsOf(names, vsGeoms, vsMatching, [k \in 1..Len(names) |-> 0])
    /\ vsPc = "start"
    /\ vsMappings = <<>>
    /\ vsPolys = <<>>
    /\ vsDs = 0
    /\ vsColorBy = ""
    /\ vsError = ""
    /\ vsGroup = NoModelDataSet
    /\ PdIdle
    /\ RgIdle
    /\ ExIdle
    /\ FgIdle
    /\ GrIdle
    /\ ClIdle

NextVisSet ==
    \/ VsConvert
    \/ VsDataSet
    \/ VsFinish

SpecVisSet == InitVisSet /\ [][NextVisSet]_vars

-----------------------------------------------------------------------------
(* Claims about add_data (specification Spec). *)

CallDone == lastCall.op = "add_data"
AllOfType(data, ty) == \A i \in 1..Len(data) : data[i].t = ty
Homogeneous(data) == \E ty \in {"float", "int", "str"} : AllOfType(data, ty)
\* the array of the call's name in the attribute set the call targets
TargetArrays == IF lastCall.cell THEN cellData ELSE pointData

\* C1 (as claimed): an add_data call whose data length differs from the cell
\* count (cell=True) or point count (cell=False) fails, and the failed call
\* leaves data_fields and the arrays of cell and point data as they were.
C1_MismatchRejected ==
    [][(lastCall'.op = "add_data"
          /\ Len(lastCall'.data) # (IF lastCall'.cell THEN nCells' ELSE nPoints'))
        => /\ lastCall'.result # "ok"
           /\ fields' = fields /\ cellData' = cellData /\ pointData' = pointData]_vars

\* C9 (as claimed): add_data of a non-empty list of strings under a new name
\* succeeds with or without an explicit data_range; the field's legend is
\* hidden and its stored range is the explicit range, or the empty
\* placeholder when none was given.
C9_StringsAccepted ==
    (CallDone /\ Len(lastCall.data) > 0 /\ AllOfType(lastCall.data, "str")
       /\ lastCall.result # "AssertionError")
    => /\ lastCall.result = "ok"
       /\ lastCall.name \in DOMAIN fields
       /\ fields[lastCall.name].hide_legend
       /\ fields[lastCall.name].range =
            (IF lastCall.dr.kind = "pair" THEN lastCall.dr ELSE EmptyRange)

\* C10 (as claimed): for a non-empty list under a new name, add_data builds a
\* float array when all values are floats, an int array when all are ints, a
\* string array when all are strings, and fails for every list of mixed or
\* unsupported element types, wherever the offending element stands (the
\* class of the error is left open here: any failure satisfies this).
C10_TypesChecked ==
    (CallDone /\ Len(lastCall.data) > 0 /\ lastCall.result # "AssertionError")
    => /\ \A ty \in {"float", "int", "str"} :
             AllOfType(lastCall.data, ty)
             => /\ lastCall.name \in DOMAIN TargetArrays
                /\ TargetArrays[lastCall.name].kind = ty
       /\ ~Homogeneous(lastCall.data) => lastCall.result # "ok"

-----------------------------------------------------------------------------
(* Claims about _get_data_range (specification SpecRange). *)

Resolved == rgOut.status \notin {"idle", "pending"}
Numeric == rgArray.kind # "str"
BothNumbers == rgRange.kind = "pair" /\ ~rgRange.lo.none /\ ~rgRange.hi.none
OneMissing == rgRange.kind = "pair" /\ (rgRange.lo.none # rgRange.hi.none)
NoneGiven == \/ rgRange.kind \in {"absent", "empty"}
             \/ rgRange.kind = "pair" /\ rgRange.lo.none /\ rgRange.hi.none
IsDataMin(x) == x \in SeqRange(rgArray.vals) /\ \A y \in SeqRange(rgArray.vals) : x <= y
IsDataMax(x) == x \in SeqRange(rgArray.vals) /\ \A y \in SeqRange(rgArray.vals) : x >= y

\* C6: for a numeric array and two numeric bounds, _get_data_range raises
\* ValueError whenever min >= max (the pair (0, 0) included) and otherwise
\* returns exactly (min, max), whatever the data values are.
C6_BothBounds ==
    (Resolved /\ Numeric /\ BothNumbers)
    => IF rgRange.lo.v >= rgRange.hi.v
       THEN rgOut.status = "ValueError"
       ELSE rgOut.status = "ok" /\ rgOut.value = Pair(rgRange.lo, rgRange.hi)

\* a valid explicit pair that does not cover the data has been returned as given
C6_Witness ==
    /\ Resolved /\ Numeric /\ BothNumbers
    /\ rgOut.status = "ok"
    /\ rgOut.value = rgRange
    /\ \E x \in SeqRange(rgArray.vals) : x > rgRange.hi.v

\* C7 (as claimed): for a numeric array and exactly one bound None, the
\* result is a pair keeping the supplied bound and filling the missing one
\* with the data minimum (min missing) or the data maximum (max missing), for
\* every numeric value of the supplied bound.
C7_OneBoundFilled ==
    (Resolved /\ Numeric /\ OneMissing)
    => /\ rgOut.status = "ok"
       /\ rgOut.value.kind = "pair"
       /\ IF rgRange.lo.none
          THEN /\ rgOut.value.hi = rgRange.hi
               /\ ~rgOut.value.lo.none /\ IsDataMin(rgOut.value.lo.v)
          ELSE /\ rgOut.value.lo = rgRange.lo
               /\ ~rgOut.value.hi.none /\ IsDataMax(rgOut.value.hi.v)

\* C8: for a numeric array, with data_range absent (None or empty) or with
\* both bounds None, _get_data_range returns (minimum of the values, maximum
\* of the values).
C8_AutoRange ==
    (Resolved /\ Numeric /\ NoneGiven)
    => /\ rgOut.status = "ok"
       /\ rgOut.value.kind = "pair"
       /\ ~rgOut.value.lo.none /\ IsDataMin(rgOut.value.lo.v)
       /\ ~rgOut.value.hi.none /\ IsDataMax(rgOut.value.hi.v)

\* the range of values whose first element is the largest has been computed
C8_Witness ==
    /\ Resolved /\ Numeric /\ NoneGiven
    /\ Len(rgArray.vals) > 1
    /\ rgArray.vals[1] > rgArray.vals[Len(rgArray.vals)]
    /\ rgOut.status = "ok"

-----------------------------------------------------------------------------
(* Claims about to_vtkjs (specification SpecExport). *)

Left == exPc \in {"done", "raised"}
NonEmpty == {i \in 1..Len(exDatasets) : exDatasets[i].npoly > 0}
\* the scene array of the index.json inside the archive at the target path
Manifest == exArchive.scene

\* C3 (as claimed): when control leaves to_vtkjs, by returning or by a step
\* raising, the scratch directory made by mkdtemp has been removed (a removal
\* that was tried and itself failed is not held against the claim).
C3_ScratchRemoved ==
    (Left /\ exRaisedAt # "rmtree") => ~exTemp.exists

\* C4: when to_vtkjs returns, the manifest's scene array holds exactly one
\* entry per dataset with a non-empty polydata list, in the order of
\* self.datasets, and none for an empty dataset; a set of only empty datasets
\* never raises in the dataset loop and returns an empty scene array.
C4_NonEmptyListed ==
    /\ exPc = "done"
       => /\ Len(Manifest) = Cardinality(NonEmpty)
          /\ \A k \in 1..Len(Manifest) :
                /\ Manifest[k].src \in NonEmpty
                /\ Manifest[k].name = exDatasets[Manifest[k].src].name
                /\ \A j \in 1..(k - 1) : Manifest[j].src < Manifest[k].src
    /\ NonEmpty = {} => exRaisedAt # "to_folder" /\ exScene = <<>>

\* a set whose first dataset is empty and whose second is not was exported
C4_Witness ==
    /\ exPc = "done"
    /\ Len(exDatasets) = 2
    /\ exDatasets[1].npoly = 0
    /\ exDatasets[2].npoly > 0
    /\ Len(Manifest) = 1

-----------------------------------------------------------------------------
(* Claims about from_analysis_geometry (specification SpecFag). *)

FagLeft == fgPc \in {"returned", "raised"}
PerObject == fgMatching = "geometries"

-----------------------------------------------------------------------------
(* Claims about sequences of calls on one PolyData (specification           *)
(* SpecCalls).                                                              *)

\* the step is an add_data call
AddDataStep == nCalls' = nCalls + 1 /\ lastCall'.op = "add_data"
\* the step is a color_by call
ColorByStep == nCalls' = nCalls + 1 /\ lastCall'.op = "color_by"

\* C11: after any sequence of add_data (and color_by) calls, an add_data call
\* whose name is already a key of data_fields fails (AssertionError), and the
\* failed call leaves data_fields, every array of cell data and of point
\* data, and the active scalars as they were.
C11_DuplicateRejected ==
    [][(AddDataStep /\ lastCall'.name \in DOMAIN fields)
        => /\ lastCall'.result = "AssertionError"
           /\ fields' = fields
           /\ cellData' = cellData /\ pointData' = pointData
           /\ activeCell' = activeCell /\ activePoint' = activePoint]_vars

\* a third or later call repeated the name of one of two attached fields
\* with other data, another placement and another range than the field has
C11_Witness ==
    /\ lastCall.op = "add_data" /\ lastCall.result = "AssertionError"
    /\ nCalls >= 3
    /\ DOMAIN fields = Names
    /\ fields[lastCall.name].per_face # lastCall.cell
    /\ fields[lastCall.name].range # lastCall.dr
    /\ lastCall.data[1].t = "str" /\ ~fields[lastCall.name].hide_legend

\* C12 (as claimed): a color_by call whose name is no key of data_fields
\* fails and leaves the active scalars as they were; a color_by call that
\* returns normally leaves the named field active, whether the field was
\* attached per face or per point and whatever the cell argument is (read
\* here for numeric fields only, and as active in cell data or point data).
C12_ColorByActivates ==
    [][ColorByStep
        => IF lastCall'.name \notin DOMAIN fields
           THEN /\ lastCall'.result # "ok"
                /\ activeCell' = activeCell /\ activePoint' = activePoint
           ELSE (lastCall'.result = "ok" /\ ~fields[lastCall'.name].hide_legend)
                => \/ activeCell' = lastCall'.name
                   \/ activePoint' = lastCall'.name]_vars

\* the names of the fields that are active in cell data or in point data
ActiveFields == ({activeCell, activePoint} \ {""}) \cap DOMAIN fields

\* C13 (as claimed): after any sequence of add_data and color_by calls at
\* most one attached field is active, counting the active scalars of cell
\* data and of point data together.
C13_OneActive == Cardinality(ActiveFields) <= 1

-----------------------------------------------------------------------------
(* Claims about a display group (specification SpecGroup). *)

\* the assignment color_by = value has returned normally, value being a
\* numeric field of every PolyData the group owns
Cascaded ==
    /\ grLast.op = "color_by" /\ grLast.result = "ok"
    /\ Len(grPolys) > 0
    /\ \A i \in 1..Len(grPolys) :
          /\ grLast.value \in DOMAIN grPolys[i].buf.fields
          /\ ~grPolys[i].buf.fields[grLast.value].hide_legend

\* C14 (as claimed): when the assignment of a field name to a group's
\* color_by returns normally, the field is the active field of every
\* PolyData the group owns (in its cell data or its point data) and the
\* group's color_by getter returns that name.
C14_ColorByCascades ==
    Cascaded
    => /\ \A i \in 1..Len(grPolys) :
             \/ grPolys[i].activeCell = grLast.value
             \/ grPolys[i].activePoint = grLast.value
       /\ GroupColorBy(grFlavor, grPolys, grColorBy) =
             [status |-> "ok", value |-> grLast.value]

\* a manifest entry has just been made of the group in its present mode
EntryMade == grLast.op = "to_dataset" /\ grLast.result = "ok" /\ grEntry.made

\* C15: the manifest entry made by to_vtk_dataset / as_data_set has
\* representation 0 for Points, 1 for Wireframe, 2 for Surface and 2 for
\* SurfaceWithEdges (min(mode value, 2), always in {0, 1, 2}), and
\* edgeVisibility 1 exactly for Wireframe and SurfaceWithEdges, else 0.
C15_ModeClamped ==
    EntryMade
    => /\ grEntry.representation =
             (CASE grMode = "Points" -> 0
                [] grMode = "Wireframe" -> 1
                [] grMode = "Surface" -> 2
                [] grMode = "SurfaceWithEdges" -> 2)
       /\ grEntry.representation \in {0, 1, 2}
       /\ grEntry.edgeVisibility =
             (IF grMode \in {"Wireframe", "SurfaceWithEdges"} THEN 1 ELSE 0)

\* a ModelDataSet set to SurfaceWithEdges gave representation 2 with edges
C15_Witness ==
    /\ EntryMade
    /\ grFlavor = "ModelDataSet"
    /\ grMode = "SurfaceWithEdges"
    /\ grEntry.representation = 2
    /\ grEntry.edgeVisibility = 1

-----------------------------------------------------------------------------
(* Claims about from_analysis_geometry and from_context_geometry           *)
(* (specifications SpecFag and SpecFagAny).                                *)

Analysis == fgKind = "analysis"
AllPoints == AllKind(fgGeoms, "point")
ManyMeshes == AllKind(fgGeoms, "mesh") /\ Len(fgGeoms) > 1
\* the data sets the loop has attached to every poly_data
Attached == {k \in 1..Len(fgDataSets) : k < fgDs}

\* C16: for a geometry whose N entities are all points, both conversions
\* make exactly one PolyData, of N points, and return it as the group's
\* only PolyData; for an AnalysisGeometry the matching is forced to
\* 'vertices' and every data set is attached to that PolyData whole and per
\* point, whatever matching was declared, with no length or mapping error.
C16_PointsMerged ==
    (AllPoints /\ fgPc # "start")
    => /\ Len(fgPolys) = 1
       /\ fgPolys[1].points = Len(fgGeoms)
       /\ fgPc = "returned" => fgGroup.made /\ fgGroup.polydata = fgPolys
       /\ Analysis
          => /\ fgMatch = "vertices"
             /\ \A k \in Attached :
                   /\ fgDataSets[k].name \in DOMAIN fgPolys[1].data
                   /\ ~fgPolys[1].data[fgDataSets[k].name].per_face
                   /\ fgPolys[1].data[fgDataSets[k].name].values = fgDataSets[k].values
             /\ fgError \in {"", "DuplicateFieldError", "UnboundLocalError"}

\* two points declared per-object were returned as one PolyData with data
C16_Witness ==
    /\ Analysis /\ AllPoints /\ Len(fgGeoms) = 2
    /\ fgMatching = "geometries"
    /\ fgPc = "returned"
    /\ Len(fgDataSets) > 0
    /\ fgGroup.polydata[1].points = 2

\* C17 (as claimed): for an AnalysisGeometry of more than one entity, all of
\* them meshes, the group returned owns exactly one PolyData, which carries
\* each data set whole.
C17_MeshesMerged ==
    (Analysis /\ ManyMeshes /\ fgPc = "returned")
    => /\ Len(fgGroup.polydata) = 1
       /\ \A k \in 1..Len(fgDataSets) :
             /\ fgDataSets[k].name \in DOMAIN fgGroup.polydata[1].data
             /\ fgGroup.polydata[1].data[fgDataSets[k].name].values
                  = fgDataSets[k].values

\* C17 (amended): for an AnalysisGeometry of more than one entity, all of
\* them meshes, nothing is merged: there is one PolyData per entity, in
\* entity order, with that entity's face and vertex counts; a single data
\* set that is the active one is always accepted, and in the group returned
\* every PolyData carries of each data set only a part of its own size (its
\* cell count per face, its point count per vertex), which for data
\* declared per face or per vertex is less than the whole data set.
C17_MeshesKept ==
    (Analysis /\ ManyMeshes /\ fgPc # "start")
    => /\ Len(fgPolys) = Len(fgGeoms)
       /\ \A i \in 1..Len(fgGeoms) :
             /\ fgPolys[i].cells = fgGeoms[i].faces
             /\ fgPolys[i].points = fgGeoms[i].vertices
       /\ (FagLeft /\ Len(fgDataSets) = 1 /\ fgActive = 0) => fgPc = "returned"
       /\ fgPc = "returned"
          => /\ fgGroup.polydata = fgPolys
             /\ \A k \in 1..Len(fgDataSets), i \in 1..Len(fgGeoms) :
                   /\ fgDataSets[k].name \in DOMAIN fgPolys[i].data
                   /\ LET d == fgPolys[i].data[fgDataSets[k].name]
                      IN /\ Len(d.values) = IF d.per_face THEN fgPolys[i].cells
                                            ELSE fgPolys[i].points
                         /\ fgMatching # "geometries"
                            => Len(d.values) < Len(fgDataSets[k].values)

\* a group of two PolyData was returned for two meshes with per-face data
C17_Witness ==
    /\ Analysis /\ ManyMeshes /\ fgMatching = "faces"
    /\ fgPc = "returned"
    /\ Len(fgGroup.polydata) = 2
    /\ Len(fgDataSets) > 0
    /\ fgGeoms[1].faces # fgGeoms[2].faces

\* the counts the declared matching slices by, and their total
SliceCounts == IF fgMatching = "faces" THEN FaceCounts(fgGeoms)
               ELSE VertexCounts(fgGeoms)
SliceTotal == SumOver(SliceCounts, Len(fgGeoms))
Split == Analysis /\ ManyMeshes /\ fgMatching \in {"faces", "vertices"}

\* C18 (as claimed): when a data set declared per face or per vertex is
\* split over more than one PolyData, PolyData i gets the run of the data
\* set that starts at the sum of the counts of entities before i and has
\* the length of entity i's count, so that the runs are disjoint, in entity
\* order and cover the whole data set; and a data set whose length differs
\* from the total count is not attached (it is rejected).
C18_RunsCover ==
    Split
    => \A k \in 1..Len(fgDataSets) :
          /\ k \in Attached
             => \A i \in 1..Len(fgGeoms) :
                   LET d == fgPolys[i].data[fgDataSets[k].name]
                       start == SumOver(SliceCounts, i - 1)
                   IN /\ Len(d.values) = SliceCounts[i]
                      /\ \A j \in 1..Len(d.values) :
                            d.values[j] = fgDataSets[k].values[start + j]
          /\ Len(fgDataSets[k].values) # SliceTotal => k \notin Attached

\* C19 (as claimed): from_analysis_geometry, when no data set is refused,
\* returns a group: its color_by is the name of the data set whose index is
\* active_data, or none when no data set has that index (zero data sets
\* included), and the group is made only after the loop over the data sets.
C19_ActiveDataSet ==
    Analysis
    => /\ (FagLeft /\ fgError \in {"", "UnboundLocalError"})
          => /\ fgPc = "returned"
             /\ fgGroup.color_by = (IF fgActive + 1 \in 1..Len(fgDataSets)
                                    THEN fgDataSets[fgActive + 1].name ELSE "")
       /\ fgGroup.made => fgDs > Len(fgDataSets)

-----------------------------------------------------------------------------
(* Claims about repeated export (specification SpecExport). *)

-----------------------------------------------------------------------------
(* Claims about the path to_vtkjs returns (specification SpecExport). *)

\* C21: when VisualizationSet.to_vtkjs(folder, name) returns, the value
\* returned is <absolute folder>/<name>.vtkjs, the archive exists at exactly
\* that path, and with name omitted the file is visualization_set.vtkjs.
C21_ReturnsArchivePath ==
    (exFlavor = "VisualizationSet" /\ exPc = "done")
    => /\ exReturn.folder = (IF exFolder = "." THEN "/cwd" ELSE exFolder)
       /\ exReturn.stem = (IF exName = "" THEN "visualization_set" ELSE exName)
       /\ exReturn.ext = "vtkjs"
       /\ exArchive.exists
       /\ exArchive.path = exReturn

\* an export to the default folder with no name has returned
C21_Witness ==
    /\ exFlavor = "VisualizationSet" /\ exPc = "done"
    /\ exFolder = "." /\ exName = ""
    /\ Len(exDatasets) > 0
    /\ exReturn.stem = "visualization_set"

-----------------------------------------------------------------------------
(* Claims about the vis-to-vtk command (specification SpecCli). *)

Exited == clPc = "exited"

\* C22 (as claimed): the command exits with code 0 exactly when
\* vis_set_to_vtk completes without raising, with code 1 when it raises, and
\* never with another code.
C22_ExitCodes ==
    Exited
    => /\ clExit \in {0, 1}
       /\ clExit = 0 <=> clReturned
       /\ clRaised # "" => clExit = 1

\* C22 (amended): the command exits with code 2, without calling
\* vis_set_to_vtk, exactly when click refuses the vis-file argument; once
\* vis_set_to_vtk is called the exit code is 0 exactly when it completes
\* without raising and 1 exactly when it raises, an unrecognised output
\* format always ends in code 1, and every exception of class Exception is
\* logged by the handler.
C22_ExitCodesOnceCalled ==
    Exited
    => /\ clExit \in {0, 1, 2}
       /\ clExit = 2 <=> ~clFileOk
       /\ clExit = 2 <=> ~clCalled
       /\ clCalled
          => /\ clExit = 0 <=> clReturned
             /\ clExit = 1 <=> clRaised # ""
             /\ clFormat \notin {"vtkjs", "VTKJS", "html", "HTML"} => clExit = 1
             /\ (clRaised # "" /\ clRaised # "KeyboardInterrupt") <=> clLogged

\* a run with an unrecognised output format ended in code 1
C22_Witness ==
    /\ Exited /\ clCalled
    /\ clFormat = "obj"
    /\ clRaised = "ValueError"
    /\ clExit = 1

-----------------------------------------------------------------------------
(* Claims about a group's opacity and fields (specifications SpecGroup and  *)
(* SpecFields).                                                             *)

\* the step is the assignment opacity = value on a DisplayPolyData
OpacityStep ==
    /\ grCalls' = grCalls + 1 /\ grLast'.op = "opacity"
    /\ grFlavor = "DisplayPolyData"

\* C23 (as claimed): after the assignment opacity = v on a DisplayPolyData
\* the opacity getter returns v, and the red, green and blue of the group's
\* color are as before.
C23_OpacitySet ==
    [][OpacityStep
        => /\ Opacity(grColor') = grLast'.value
           /\ grColor'.r = grColor.r /\ grColor'.g = grColor.g
           /\ grColor'.b = grColor.b]_vars

\* C24 (as claimed): after any sequence of add_data_fields calls on a
\* ModelDataSet whose PolyData carried the same field names, succeeded or
\* failed, all its PolyData carry the same set of field names.
C24_SameFieldNames == SameFields(grPolys)

-----------------------------------------------------------------------------
(* Claims about the legend range (specifications SpecLegend, SpecCalls and  *)
(* Spec).                                                                   *)

\* the range of the values [1, 5, 3] has been resolved with no explicit range
Resolved153 == Resolved /\ rgArray.vals = <<1, 5, 3>> /\ NoneGiven

\* C25 (as claimed): resolving the legend range of the values [1, 5, 3]
\* with no explicit range returns (1, 3).
C25_RangeOf153 ==
    Resolved153 => rgOut.value = Pair(Num(1), Num(3))

\* C25 (amended): resolving the legend range of the values [1, 5, 3] with no
\* explicit range (None, an empty range, or both bounds None) returns
\* (1, 5), the least and the greatest of the values.
C25_RangeOf153IsMinMax ==
    Resolved153 => rgOut.status = "ok" /\ rgOut.value = Pair(Num(1), Num(5))

\* the range of the float values [1, 5, 3] was resolved with data_range None
C25_Witness ==
    /\ Resolved153
    /\ rgArray.kind = "float"
    /\ rgRange = Absent
    /\ rgOut.value.hi = Num(5)

\* C26 (as claimed): an add_data call that fails while resolving the legend
\* range (an invalid explicit data_range) leaves the buffer as before the
\* call: the arrays of cell data and point data and data_fields are
\* unchanged, so that no array of the call's name is attached by it.
C26_FailedRangeLeavesBuffer ==
    [][(AddDataStep /\ lastCall'.result = "ValueError" /\ lastCall'.dr.kind = "pair"
          /\ lastCall'.name \notin DOMAIN fields)
        => /\ cellData' = cellData /\ pointData' = pointData
           /\ fields' = fields]_vars

\* C27 (as claimed): every legend range add_data stores for a numeric field
\* is a pair (min, max) of numbers with min <= max.
C27_RangeOrdered ==
    (CallDone /\ lastCall.result = "ok" /\ ~fields[lastCall.name].hide_legend)
    => LET r == fields[lastCall.name].range
       IN /\ r.kind = "pair"
          /\ ~r.lo.none /\ ~r.hi.none
          /\ r.lo.v <= r.hi.v

-----------------------------------------------------------------------------
(* Claims about per-object data sets (specification SpecFag). *)

\* C28 (as claimed): with matching method 'geometries' on geometry that is
\* not all points, every data set, the first and each later one alike, is
\* expanded: none is refused for its mapping or its length, and the values
\* attached to buffer i are value i of the data set once per cell of
\* buffer i.
C28_EveryDataSetExpanded ==
    (Analysis /\ PerObject /\ ~AllPoints)
    => /\ fgError \in {"", "UnboundLocalError", "DuplicateFieldError"}
       /\ \A k \in Attached :
             \A i \in 1..Len(fgPolys) :
                LET d == fgPolys[i].data[fgDataSets[k].name]
                IN /\ Len(d.values) = fgPolys[i].cells
                   /\ \A j \in 1..Len(d.values) :
                         d.values[j] = fgDataSets[k].values[i]

-----------------------------------------------------------------------------
(* Claims about vis_set._data_mapping (specification SpecVisSet). *)

\* the length of data set k of the call
VsLen(k) == Len(vsDataSets[k].values)

\* C29 (as claimed): for a valid AnalysisGeometry, a data set whose length
\* equals the face count of the first geometry is classified as per face
\* and one whose length equals its vertex count as per vertex, and it is
\* never rejected as per-object; ValueError is raised only for a data set
\* that matches none of the object, face and vertex counts.
C29_FacesAndVerticesMapped ==
    /\ \A k \in 1..Len(vsMappings) :
          /\ VsLen(k) = VsFaceCount(vsGeoms[1]) => vsMappings[k] = "face"
          /\ (VsLen(k) = VsVertexCount(vsGeoms[1])
                 /\ VsLen(k) # VsFaceCount(vsGeoms[1])) => vsMappings[k] = "vertices"
    /\ vsError = "NotImplementedError"
       => VsLen(vsDs) \notin {VsFaceCount(vsGeoms[1]), VsVertexCount(vsGeoms[1])}
    /\ vsError = "ValueError"
       => \E k \in 1..Len(vsDataSets) :
             VsLen(k) \notin {Len(vsGeoms), VsFaceCount(vsGeoms[1]),
                              VsVertexCount(vsGeoms[1])}

-----------------------------------------------------------------------------
(* Claims about the sub-folders of an export (specification SpecExport). *)

\* C30 (as claimed): within one to_vtkjs export, two different datasets that
\* both appear in the scene are written to two different sub-folders of the
\* scratch directory, and no two scene entries share an
\* httpDataSetReader.url.
C30_SubFoldersDistinct ==
    \A j, k \in 1..Len(exScene) :
       j # k => /\ exWritten[exScene[j].src] # exWritten[exScene[k].src]
                /\ exScene[j].url # exScene[k].url

====
